---- MODULE Spec2Model ----
(***************************************************************************)
(* A model of the retrieval and routing backend:                           *)
(*   - HierarchicalVectorStore (api/vectorstore.py): parent and child      *)
(*     Chroma collections, add_documents, delete_collection;               *)
(*   - HybridRetriever (api/retriever.py): the BM25 keyword index cached   *)
(*     over the child collection, keyword_search, rebuild_bm25_index;      *)
(*   - the callers that ingest documents (api/agent.py, api/views.py,      *)
(*     api/initialization.py);                                             *)
(*   - SQLEngine (api/sql_engine.py): the CSV tables, their loaders and    *)
(*     execute_query, and the threads that call them;                      *)
(*   - MasterOrchestrator.process_query (api/agent.py) over the stored     *)
(*     conversation (api/memory.py).                                       *)
(* A text is a sequence of lowercase words; the empty sequence is a text   *)
(* that is empty after strip().                                            *)
(***************************************************************************)
EXTENDS Integers, Sequences, FiniteSets, TLC

\* ------------------------------------------------------------------ bounds

\* uuid4 values drawn in one behaviour (one per non-empty parent chunk)
MaxUuid == 2
\* largest k a search is called with
MaxK == 2
\* longest result list handed to reciprocal_rank_fusion
MaxRank == 3
\* ChatMessage rows one session holds
MaxMessages == 6
\* largest `limit` execute_query is called with
MaxLimit == 2

\* ------------------------------------------------------------------ helpers

Range(s) == {s[i] : i \in 1..Len(s)}

Min(a, b) == IF a < b THEN a ELSE b

Max(a, b) == IF a < b THEN b ELSE a

RECURSIVE Flatten(_)
Flatten(ss) == IF ss = <<>> THEN <<>> ELSE Head(ss) \o Flatten(Tail(ss))

\* the values of a Python list comprehension: [f(x) for x in s]
MapSeq(s, f(_)) == [i \in 1..Len(s) |-> f(s[i])]

\* ------------------------------------------------------------------ inputs

\* A parent chunk as parent_splitter.split_text produced it, with the chunks
\* child_splitter.split_text cuts it into.
PVisaFee == [text |-> <<"visa", "fee">>, children |-> << <<"visa">>, <<"fee">> >>]
PFee == [text |-> <<"fee">>, children |-> << <<"fee">> >>]
PGap == [text |-> <<"visa">>, children |-> << <<>>, <<"visa">> >>]
PBlank == [text |-> <<"fee">>, children |-> << <<>> >>]
PEmpty == [text |-> <<>>, children |-> <<>>]

\* A document: its page_content and the parent chunks it is split into.
DocTwo == [page_content |-> <<"visa", "fee">>, parents |-> <<PVisaFee>>]
DocFee == [page_content |-> <<"fee">>, parents |-> <<PFee>>]
DocGap == [page_content |-> <<"visa", "fee">>, parents |-> <<PGap, PBlank>>]
DocEmpty == [page_content |-> <<>>, parents |-> <<>>]
DocPad == [page_content |-> <<"fee">>, parents |-> <<PEmpty, PFee>>]

\* the lists of documents a caller passes to add_documents
DocumentLists == {<<DocTwo>>, <<DocFee>>, <<DocGap>>, <<DocEmpty>>, <<DocPad>>,
                  <<DocFee, DocTwo>>}

Queries == {<<"visa">>, <<"fee">>, <<"visa", "fee">>, <<"lead">>}

KValues == 1..MaxK

\* ------------------------------------------------------------------ state

VARIABLES
    child_store,       \* the child_chunks collection: records in insertion order
    parent_store,      \* the parent_chunks collection: records in insertion order
    parent_child_map,  \* HierarchicalVectorStore.parent_child_map
    uuid,              \* uuid4 values drawn so far
    bm25_index,        \* HybridRetriever.bm25_index (built = FALSE: None)
    bm25_documents,    \* HybridRetriever.bm25_documents
    ret,               \* what the last call returned or raised
    rb,                \* a request thread inside rebuild_bm25_index
    ks,                \* a request thread inside keyword_search
    dataframes,        \* SQLEngine.dataframes: table name -> DataFrame
    table_schemas,     \* SQLEngine.table_schemas: table name -> schema
    disk,              \* the files of the CSV directories, in listing order
    sqlret,            \* what the last SQLEngine call returned or raised
    wr,                \* the request threads inside a loader of the SQLEngine
    rd,                \* a request thread inside a reader of the SQLEngine
    messages,          \* the ChatMessage rows of the session, in timestamp order
    response,          \* what the last process_query returned or raised
    executor           \* a request thread inside agent_executor.invoke

storeVars == <<child_store, parent_store, parent_child_map, uuid>>

bm25Vars == <<bm25_index, bm25_documents>>

threadVars == <<rb, ks>>

engineVars == <<dataframes, table_schemas>>

sqlVars == <<dataframes, table_schemas, disk, sqlret>>

sqlThreadVars == <<wr, rd>>

orchVars == <<messages, response, executor>>

\* what the steps of the SQLEngine's request threads leave alone
outsideThreads == <<storeVars, bm25Vars, ret, threadVars, orchVars>>

vars == <<child_store, parent_store, parent_child_map, uuid,
          bm25_index, bm25_documents, ret, rb, ks,
          dataframes, table_schemas, disk, sqlret, wr, rd,
          messages, response, executor>>

\* what the document store's and the retriever's calls leave alone
otherVars == <<threadVars, sqlVars, sqlThreadVars, orchVars>>

\* what the steps of the retriever's request threads leave alone
outsideBM25 == <<ret, sqlVars, sqlThreadVars, orchVars>>

\* what the SQLEngine's calls leave alone
outsideSQL == <<storeVars, bm25Vars, ret, threadVars, sqlThreadVars, orchVars>>

NoIndex == [built |-> FALSE, corpus |-> <<>>]

NoMap == [p \in {} |-> <<>>]

\* a thread that is in no call
RbIdle == [pc |-> "idle", documents |-> <<>>]

KsIdle == [pc |-> "idle", query |-> <<>>, k |-> 0, documents |-> <<>>,
           index |-> NoIndex, results |-> <<>>]

\* the request threads that call the loaders of the SQLEngine
Writers == {1, 2}

WrIdle == [pc |-> "idle", op |-> "", files |-> <<>>, file |-> <<>>,
           table_name |-> <<>>, wrote |-> FALSE, count |-> 0]

RdIdle == [pc |-> "idle", op |-> "", table_name |-> <<>>, tables |-> {},
           found |-> FALSE, raised |-> FALSE]

NoResponse == [op |-> "init", raised |-> FALSE]

ExecutorIdle == [pc |-> "idle", iterations |-> 0, steps |-> <<>>, output |-> ""]

\* --------------------------------------------------- HierarchicalVectorStore

\* `not text or len(text.strip()) == 0`
IsBlank(text) == Len(text) = 0

\* The writes of one parent chunk, in the order add_documents issues them:
\* one child_store.add_documents per non-blank child chunk (chunk_index is the
\* chunk's position in the split, blank ones counted), then, if any child was
\* written, one parent_store.add_documents.
ParentChunkWrites(chunk, pid) ==
    LET kept == SelectSeq([i \in 1..Len(chunk.children) |-> i],
                          LAMBDA i : ~IsBlank(chunk.children[i]))
        childWrites ==
            [j \in 1..Len(kept) |->
                [store |-> "child", id |-> <<pid, kept[j] - 1>>,
                 content |-> chunk.children[kept[j]],
                 parent_id |-> pid, chunk_index |-> kept[j] - 1,
                 num_children |-> 0]]
    IN  IF Len(kept) > 0
        THEN childWrites \o
             << [store |-> "parent", id |-> pid, content |-> chunk.text,
                 parent_id |-> 0, chunk_index |-> 0,
                 num_children |-> Len(kept)] >>
        ELSE <<>>

\* the non-blank parent chunks of the non-blank documents, in loop order
ParentChunksOf(documents) ==
    LET docs == SelectSeq(documents, LAMBDA d : ~IsBlank(d.page_content))
        all == Flatten([i \in 1..Len(docs) |-> docs[i].parents])
    IN  SelectSeq(all, LAMBDA c : ~IsBlank(c.text))

\* every store write of add_documents(documents); the k-th non-blank parent
\* chunk gets the fresh id first + k
AddDocumentsWrites(documents, first) ==
    LET chunks == ParentChunksOf(documents)
    IN  Flatten([k \in 1..Len(chunks) |-> ParentChunkWrites(chunks[k], first + k)])

ChildRecord(w) ==
    [id |-> w.id, content |-> w.content, parent_id |-> w.parent_id,
     chunk_index |-> w.chunk_index]

ParentRecord(w) ==
    [id |-> w.id, content |-> w.content, num_children |-> w.num_children]

\* HierarchicalVectorStore.add_documents, where the first `done` store writes
\* succeed and the next one, if any is left, raises (the embedding service or
\* the collection being unavailable); the exception leaves add_documents.
\* parent_child_map gets a parent's entry right after its parent write.
VSAddDocuments(documents, done) ==
    LET writes == AddDocumentsWrites(documents, uuid)
        made == SubSeq(writes, 1, done)
        childMade == SelectSeq(made, LAMBDA w : w.store = "child")
        parentMade == SelectSeq(made, LAMBDA w : w.store = "parent")
        newParents == {w.id : w \in Range(parentMade)}
    IN  [child_store |-> child_store \o MapSeq(childMade, ChildRecord),
         parent_store |-> parent_store \o MapSeq(parentMade, ParentRecord),
         parent_child_map |->
            [p \in DOMAIN parent_child_map \cup newParents |->
                IF p \in newParents
                THEN MapSeq(SelectSeq(childMade, LAMBDA w : w.parent_id = p),
                            LAMBDA w : w.id)
                ELSE parent_child_map[p]],
         uuid |-> uuid + Len(ParentChunksOf(documents)),
         raised |-> done < Len(writes)]

\* the add_documents calls the bound on uuid4 values allows
CanAdd(documents) == uuid + Len(ParentChunksOf(documents)) <= MaxUuid

\* HierarchicalVectorStore.delete_collection: each delete may raise, which is
\* swallowed and leaves that collection as it is; the new Chroma object opens
\* the collection of the same name in the same persist directory.
VSDeleteCollection(parentFails, childFails) ==
    [child_store |-> IF childFails THEN child_store ELSE <<>>,
     parent_store |-> IF parentFails THEN parent_store ELSE <<>>,
     parent_child_map |-> NoMap,
     uuid |-> uuid]

SetStore(s) ==
    /\ child_store' = s.child_store
    /\ parent_store' = s.parent_store
    /\ parent_child_map' = s.parent_child_map
    /\ uuid' = s.uuid

\* ------------------------------------------------------------------ SQLEngine
\* A file name and a table name are sequences of characters.

Digits == {"0", "1", "2", "3", "4", "5", "6", "7", "8", "9"}

LowerAlphabet ==
    <<"a", "b", "c", "d", "e", "f", "g", "h", "i", "j", "k", "l", "m",
      "n", "o", "p", "q", "r", "s", "t", "u", "v", "w", "x", "y", "z">>

UpperAlphabet ==
    <<"A", "B", "C", "D", "E", "F", "G", "H", "I", "J", "K", "L", "M",
      "N", "O", "P", "Q", "R", "S", "T", "U", "V", "W", "X", "Y", "Z">>

LowerLetters == Range(LowerAlphabet)

UpperLetters == Range(UpperAlphabet)

\* two characters outside ASCII: LATIN CAPITAL LETTER I WITH DOT ABOVE, a
\* letter, and COMBINING DOT ABOVE, a mark
CapitalIDot == "U+0130"

CombiningDot == "U+0307"

\* str.isalnum() on one character
IsAlnum(c) == c \in Digits \cup LowerLetters \cup UpperLetters \cup {CapitalIDot}

\* str.lower() on one character: a string, of two characters for U+0130
LowerChar(c) ==
    IF c \in UpperLetters
    THEN <<LowerAlphabet[CHOOSE i \in 1..Len(UpperAlphabet) : UpperAlphabet[i] = c]>>
    ELSE IF c = CapitalIDot THEN <<"i", CombiningDot>>
    ELSE <<c>>

StrLower(s) == Flatten([i \in 1..Len(s) |-> LowerChar(s[i])])

StartsWith(s, pat) == Len(s) >= Len(pat) /\ SubSeq(s, 1, Len(pat)) = pat

EndsWith(s, pat) ==
    Len(s) >= Len(pat) /\ SubSeq(s, Len(s) - Len(pat) + 1, Len(s)) = pat

\* s.replace(pat, '')
RECURSIVE RemoveAll(_, _)
RemoveAll(s, pat) ==
    IF s = <<>> THEN <<>>
    ELSE IF StartsWith(s, pat) THEN RemoveAll(SubSeq(s, Len(pat) + 1, Len(s)), pat)
    ELSE <<Head(s)>> \o RemoveAll(Tail(s), pat)

\* s.lstrip(chars)
RECURSIVE LStrip(_, _)
LStrip(s, chars) ==
    IF s # <<>> /\ Head(s) \in chars THEN LStrip(Tail(s), chars) ELSE s

\* s.split(sep)
RECURSIVE Split(_, _)
Split(s, sep) ==
    IF \A i \in 1..Len(s) : s[i] # sep THEN <<s>>
    ELSE LET i == CHOOSE i \in 1..Len(s) :
                    s[i] = sep /\ \A j \in 1..(i - 1) : s[j] # sep
         IN  <<SubSeq(s, 1, i - 1)>> \o Split(SubSeq(s, i + 1, Len(s)), sep)

\* sep.join(parts)
RECURSIVE Join(_, _)
Join(parts, sep) ==
    IF parts = <<>> THEN <<>>
    ELSE IF Len(parts) = 1 THEN parts[1]
    ELSE parts[1] \o <<sep>> \o Join(Tail(parts), sep)

DotCsv == <<".", "c", "s", "v">>

DotCsvUpper == <<".", "C", "S", "V">>

\* SQLEngine._sanitize_table_name
SanitizeTableName(filename) ==
    LET stripped == RemoveAll(RemoveAll(filename, DotCsv), DotCsvUpper)
        replaced == [i \in 1..Len(stripped) |->
                        IF IsAlnum(stripped[i]) THEN stripped[i] ELSE "_"]
        lstripped == LStrip(replaced, Digits \cup {"_"})
        joined == Join(SelectSeq(Split(lstripped, "_"), LAMBDA part : part # <<>>), "_")
        name == IF joined # <<>> /\ joined[1] \in Digits
                THEN <<"t", "a", "b", "l", "e", "_">> \o joined
                ELSE joined
    IN  IF name # <<>> THEN StrLower(name)
        ELSE <<"u", "n", "n", "a", "m", "e", "d", "_", "t", "a", "b", "l", "e">>

\* the files: the name, the encodings pd.read_csv parses the bytes with, and
\* the DataFrame that gives
FileA == [name |-> <<"a", ".", "c", "s", "v">>, decodes |-> {"utf-8"},
          rows |-> 3, columns |-> <<"name", "credit_limit">>]
FileUpperA == [name |-> <<"A", ".", "c", "s", "v">>, decodes |-> {"latin-1", "cp1252"},
               rows |-> 1, columns |-> <<"name">>]
File2B == [name |-> <<"2", " ", "b", ".", "c", "s", "v">>, decodes |-> {"utf-8"},
           rows |-> 2, columns |-> <<"name">>]
FileBad == [name |-> <<"c", ".", "c", "s", "v">>, decodes |-> {},
            rows |-> 0, columns |-> <<>>]
FileTxt == [name |-> <<"a", ".", "t", "x", "t">>, decodes |-> {"utf-8"},
            rows |-> 1, columns |-> <<"name">>]

TableA == <<"a">>

TableB == <<"b">>

TableX == <<"x">>

\* SQLEngine.csv_directories
csv_directories == <<"./pdfs", "./uploaded_docs">>

\* the directories at start-up
InitialDisks ==
    {[d \in Range(csv_directories) |->
        IF d = "./pdfs" THEN <<FileA, FileTxt>> ELSE up] :
        up \in {<<>>, <<FileUpperA>>, <<File2B>>}}

\* what the CSV-upload endpoint receives: a file and the table_name field
UploadFiles == {FileUpperA, File2B, FileBad, FileTxt}

UploadTableNames == {<<>>, TableA}

\* _read_csv_with_encoding: the DataFrame of the first encoding that parses,
\* None (ok = FALSE) when none does
encodings == <<"utf-8", "latin-1", "iso-8859-1", "cp1252", "utf-16">>

NoFrame == [ok |-> FALSE, rows |-> 0, columns |-> <<>>]

ReadCsvWithEncoding(file) ==
    IF \E i \in 1..Len(encodings) : encodings[i] \in file.decodes
    THEN [ok |-> TRUE, rows |-> file.rows, columns |-> file.columns]
    ELSE NoFrame

\* _get_schema
GetSchema(df) == [i \in 1..Len(df.columns) |-> [column_name |-> df.columns[i]]]

NoTables == [t \in {} |-> NoFrame]

Put(map, key, value) ==
    [k \in DOMAIN map \cup {key} |-> IF k = key THEN value ELSE map[k]]

\* the loop body of load_all_csv_files over `files`, one directory's listing
RECURSIVE LoadFiles(_, _)
LoadFiles(files, engine) ==
    IF files = <<>> THEN engine
    ELSE LET file == Head(files)
             table_name == SanitizeTableName(file.name)
             df == ReadCsvWithEncoding(file)
         IN  IF ~EndsWith(StrLower(file.name), DotCsv)
                \/ table_name \in DOMAIN engine.dataframes
                \/ ~df.ok
             THEN LoadFiles(Tail(files), engine)
             ELSE LoadFiles(Tail(files),
                    [dataframes |-> Put(engine.dataframes, table_name, df),
                     table_schemas |-> Put(engine.table_schemas, table_name, GetSchema(df)),
                     count |-> engine.count + 1])

\* SQLEngine.load_all_csv_files on the engine state `engine`
RECURSIVE LoadDirectories(_, _, _)
LoadDirectories(dirs, files, engine) ==
    IF dirs = <<>> THEN engine
    ELSE LoadDirectories(Tail(dirs), files, LoadFiles(files[Head(dirs)], engine))

LoadAllCsvFiles(files, dfs, schemas) ==
    LoadDirectories(csv_directories, files,
                    [dataframes |-> dfs, table_schemas |-> schemas, count |-> 0])

\* SQLEngine.reload_csv_files
ReloadCsvFiles(files) == LoadAllCsvFiles(files, NoTables, NoTables)

\* SQLEngine.add_csv_file(file_path, table_name): `given` is the table_name
\* argument, <<>> when none is passed
AddCsvFile(file, given, dfs, schemas) ==
    LET table_name == IF given # <<>> THEN given ELSE SanitizeTableName(file.name)
        df == ReadCsvWithEncoding(file)
    IN  IF ~df.ok
        THEN [dataframes |-> dfs, table_schemas |-> schemas, value |-> FALSE]
        ELSE [dataframes |-> Put(dfs, table_name, df),
              table_schemas |-> Put(schemas, table_name, GetSchema(df)),
              value |-> TRUE]

\* SQLEngine.get_available_tables: the keys of self.dataframes
GetAvailableTables(dfs) == DOMAIN dfs

\* SQLEngine.get_table_schema(table_name): the schema of a key of
\* self.table_schemas, whose row count is read from self.dataframes (KeyError
\* when the name is not a key there); the not-found error for another name;
\* every schema when no name is passed
GetTableSchema(table_name, dfs, schemas) ==
    IF table_name # <<>>
    THEN IF table_name \in DOMAIN schemas
         THEN IF table_name \in DOMAIN dfs
              THEN [kind |-> "schema", table_name |-> table_name,
                    row_count |-> dfs[table_name].rows, columns |-> schemas[table_name]]
              ELSE [kind |-> "raised"]
         ELSE [kind |-> "error"]
    ELSE IF DOMAIN schemas \subseteq DOMAIN dfs
         THEN [kind |-> "all",
               schemas |-> [t \in DOMAIN schemas |->
                              [row_count |-> dfs[t].rows, columns |-> schemas[t]]]]
         ELSE [kind |-> "raised"]

\* Path.stem of a name that ends in a four-character suffix
Stem(name) == SubSeq(name, 1, Len(name) - 4)

\* writing the upload to ./uploaded_docs/<name>: a file of that name is replaced
SaveUpload(files, file) ==
    LET dir == files["./uploaded_docs"]
        saved == IF \E i \in 1..Len(dir) : dir[i].name = file.name
                 THEN [i \in 1..Len(dir) |->
                         IF dir[i].name = file.name THEN file ELSE dir[i]]
                 ELSE Append(dir, file)
    IN  [files EXCEPT !["./uploaded_docs"] = saved]

SqlReturned(op, value) == sqlret' = [op |-> op, value |-> value]

\* ------------------------------------------------------------ HybridRetriever

\* str.lower() on one word
Lower(w) == IF w = "Visa" THEN "visa" ELSE w

\* `text.lower().split()`
Tokenize(text) == [i \in 1..Len(text) |-> Lower(text[i])]

\* _get_all_documents_from_vectorstore: one Document per stored child chunk,
\* in collection order, carrying the chunk's content and metadata; [] when
\* reading the collection raises.
GetAllDocuments(readFails) ==
    IF readFails THEN <<>>
    ELSE MapSeq(child_store,
                LAMBDA r : [page_content |-> r.content, parent_id |-> r.parent_id,
                            chunk_index |-> r.chunk_index])

\* BM25Okapi(tokenized_docs): the index keeps the tokenized corpus
BuildIndex(documents) ==
    [built |-> TRUE, corpus |-> MapSeq(documents, LAMBDA d : Tokenize(d.page_content))]

\* bm25_index.get_scores(tokenized_query): one score per indexed document,
\* positive exactly for the documents sharing a term with the query (the
\* number of query terms the document holds stands for the BM25 sum).
GetScores(index, tokenized_query) ==
    [i \in 1..Len(index.corpus) |->
        Cardinality({j \in 1..Len(tokenized_query) :
                        tokenized_query[j] \in Range(index.corpus[i])})]

\* np.argsort(scores): the positions in ascending order of score, equal
\* scores in position order
Argsort(scores) ==
    LET rank(i) == 1 + Cardinality({j \in 1..Len(scores) :
                        \/ scores[j] < scores[i]
                        \/ (scores[j] = scores[i] /\ j < i)})
    IN  [p \in 1..Len(scores) |-> CHOOSE i \in 1..Len(scores) : rank(i) = p]

Reverse(s) == [i \in 1..Len(s) |-> s[Len(s) + 1 - i]]

\* keyword_search from `tokenized_query = ...` on: the scores come from
\* `index`, the documents are looked up in `documents`.
KeywordResults(index, documents, query, k) ==
    LET scores == GetScores(index, Tokenize(query))
        kk == Min(k, Len(scores))
        sorted == Argsort(scores)
        \* `[-k:]`: the last k positions, or for a negative k all but the first -k
        from == IF kk > 0 THEN Len(sorted) - kk + 1 ELSE 1 - kk
        top_indices == Reverse(SubSeq(sorted, from, Len(sorted)))
        hits == SelectSeq(top_indices,
                          LAMBDA idx : idx \in 1..Len(documents) /\ scores[idx] > 0)
    IN  IF kk = 0 \/ Len(scores) = 0 THEN <<>>
        ELSE MapSeq(hits, LAMBDA idx : [doc |-> documents[idx], score |-> scores[idx]])

\* `not self.bm25_index or not self.bm25_documents`
IndexMissing == ~bm25_index.built \/ bm25_documents = <<>>

\* rebuild_bm25_index as a state change on the retriever, given the store it
\* reads: the index is replaced only when the store holds a document.
RebuildFrom(documents) ==
    IF documents # <<>>
    THEN [bm25_index |-> BuildIndex(documents), bm25_documents |-> documents,
          value |-> TRUE]
    ELSE [bm25_index |-> bm25_index, bm25_documents |-> bm25_documents,
          value |-> FALSE]

Returned(op, ok, results) == ret' = [op |-> op, ok |-> ok, results |-> results]

\* ------------------------------------------------------------------ actions

\* HybridRetriever.rebuild_bm25_index
RebuildBM25Index ==
    \E readFails \in BOOLEAN :
        LET r == RebuildFrom(GetAllDocuments(readFails))
        IN  /\ bm25_index' = r.bm25_index
            /\ bm25_documents' = r.bm25_documents
            /\ Returned("rebuild_bm25_index", r.value, <<>>)
            /\ UNCHANGED <<storeVars, otherVars>>

\* HybridRetriever.keyword_search(query, k) with k drawn from kvalues
KeywordSearchK(kvalues) ==
    \E query \in Queries, k \in kvalues, readFails \in BOOLEAN :
        LET all_docs == GetAllDocuments(readFails)
            returned(results) ==
                ret' = [op |-> "keyword_search", ok |-> TRUE, results |-> results, k |-> k]
        IN  /\ UNCHANGED <<storeVars, otherVars>>
            /\ IF IndexMissing /\ all_docs = <<>>
               THEN /\ UNCHANGED bm25Vars
                    /\ returned(<<>>)
               ELSE /\ bm25_index' = IF IndexMissing THEN BuildIndex(all_docs)
                                     ELSE bm25_index
                    /\ bm25_documents' = IF IndexMissing THEN all_docs
                                         ELSE bm25_documents
                    /\ returned(KeywordResults(bm25_index', bm25_documents', query, k))

\* HybridRetriever.keyword_search with a positive k
KeywordSearch == KeywordSearchK(KValues)

\* DocumentUploadView.post: vector_store.add_documents, nothing else on the
\* retriever; an exception becomes the 500 response
DocumentUploadView_post ==
    \E documents \in DocumentLists :
      \E done \in 0..Len(AddDocumentsWrites(documents, uuid)) :
        /\ CanAdd(documents)
        /\ LET s == VSAddDocuments(documents, done)
           IN  SetStore(s) /\ Returned("DocumentUploadView.post", ~s.raised, <<>>)
        /\ UNCHANGED <<bm25Vars, otherVars>>

\* KnowledgeBaseInitializer._load_documents_from_folder, one file: the same
\* call, an exception is logged and the loop goes on
Initializer_load_documents ==
    \E documents \in DocumentLists :
      \E done \in 0..Len(AddDocumentsWrites(documents, uuid)) :
        /\ CanAdd(documents)
        /\ LET s == VSAddDocuments(documents, done)
           IN  SetStore(s) /\ Returned("initialization", ~s.raised, <<>>)
        /\ UNCHANGED <<bm25Vars, otherVars>>

\* RAGAgent.add_documents: True, or False when add_documents raised
RAGAgent_add_documents ==
    \E documents \in DocumentLists :
      \E done \in 0..Len(AddDocumentsWrites(documents, uuid)) :
        /\ CanAdd(documents)
        /\ LET s == VSAddDocuments(documents, done)
           IN  SetStore(s) /\ Returned("RAGAgent.add_documents", ~s.raised, <<>>)
        /\ UNCHANGED <<bm25Vars, otherVars>>

\* MasterOrchestrator.add_documents: the rebuild follows add_documents inside
\* the same try, so it is skipped when add_documents raised
MasterOrchestrator_add_documents ==
    \E documents \in DocumentLists, readFails \in BOOLEAN :
      \E done \in 0..Len(AddDocumentsWrites(documents, uuid)) :
        /\ CanAdd(documents)
        /\ LET s == VSAddDocuments(documents, done)
               docs == IF readFails THEN <<>>
                       ELSE MapSeq(s.child_store,
                                   LAMBDA r : [page_content |-> r.content,
                                               parent_id |-> r.parent_id,
                                               chunk_index |-> r.chunk_index])
               r == RebuildFrom(docs)
           IN  /\ SetStore(s)
               /\ bm25_index' = IF s.raised THEN bm25_index ELSE r.bm25_index
               /\ bm25_documents' = IF s.raised THEN bm25_documents
                                    ELSE r.bm25_documents
               /\ Returned("MasterOrchestrator.add_documents", ~s.raised, <<>>)
        /\ UNCHANGED otherVars

\* VectorStoreClearView.delete: vector_store.delete_collection()
DeleteCollection ==
    \E parentFails \in BOOLEAN, childFails \in BOOLEAN :
        /\ SetStore(VSDeleteCollection(parentFails, childFails))
        /\ Returned("delete_collection", TRUE, <<>>)
        /\ UNCHANGED <<bm25Vars, otherVars>>

\* the engine as SQLEngine.__init__ leaves it: load_all_csv_files on no tables
EngineInit(files) ==
    /\ disk = files
    /\ dataframes = ReloadCsvFiles(files).dataframes
    /\ table_schemas = ReloadCsvFiles(files).table_schemas
    /\ sqlret = [op |-> "init", value |-> ReloadCsvFiles(files).count]

\* the document store and the retriever as their constructors leave them
StoreInit ==
    /\ child_store = <<>>
    /\ parent_store = <<>>
    /\ parent_child_map = NoMap
    /\ uuid = 0
    /\ bm25_index = NoIndex
    /\ bm25_documents = <<>>
    /\ ret = [op |-> "init", ok |-> TRUE, results |-> <<>>]
    /\ rb = RbIdle
    /\ ks = KsIdle
    /\ wr = [t \in Writers |-> WrIdle]
    /\ rd = RdIdle
    /\ messages = <<>>
    /\ response = NoResponse
    /\ executor = ExecutorIdle

Next ==
    \/ DocumentUploadView_post
    \/ Initializer_load_documents
    \/ RAGAgent_add_documents
    \/ MasterOrchestrator_add_documents
    \/ DeleteCollection
    \/ RebuildBM25Index
    \/ KeywordSearch

\* start-up with an empty ./uploaded_docs
Init ==
    /\ StoreInit
    /\ EngineInit(CHOOSE files \in InitialDisks : files["./uploaded_docs"] = <<>>)

Spec == Init /\ [][Next]_vars

\* ------------------------------------- keyword_search beside a BM25 rebuild
\* Two request threads share the HybridRetriever singleton: one runs
\* rebuild_bm25_index, one keyword_search. Each attribute read or write of
\* bm25_index and bm25_documents is a step of its own; no lock is taken.

\* another request's vector_store.add_documents, run to its end
StoreIngest ==
    \E documents \in DocumentLists :
        /\ CanAdd(documents)
        /\ SetStore(VSAddDocuments(documents, Len(AddDocumentsWrites(documents, uuid))))
        /\ UNCHANGED <<bm25Vars, outsideBM25, threadVars>>

\* another request's vector_store.delete_collection, run to its end
StoreClear ==
    /\ child_store # <<>>
    /\ SetStore(VSDeleteCollection(FALSE, FALSE))
    /\ UNCHANGED <<bm25Vars, outsideBM25, threadVars>>

\* rebuild_bm25_index: documents = self._get_all_documents_from_vectorstore()
RB_Read ==
    /\ rb.pc = "idle"
    /\ LET documents == GetAllDocuments(FALSE)
       IN  rb' = IF documents # <<>>
                 THEN [pc |-> "write_index", documents |-> documents]
                 ELSE RbIdle
    /\ UNCHANGED <<storeVars, bm25Vars, outsideBM25, ks>>

\* _build_bm25_index: self.bm25_index = BM25Okapi(tokenized_docs)
RB_WriteIndex ==
    /\ rb.pc = "write_index"
    /\ bm25_index' = BuildIndex(rb.documents)
    /\ rb' = [rb EXCEPT !.pc = "write_documents"]
    /\ UNCHANGED <<storeVars, bm25_documents, outsideBM25, ks>>

\* _build_bm25_index: self.bm25_documents = documents
RB_WriteDocuments ==
    /\ rb.pc = "write_documents"
    /\ bm25_documents' = rb.documents
    /\ rb' = RbIdle
    /\ UNCHANGED <<storeVars, bm25_index, outsideBM25, ks>>

\* keyword_search up to the index check: with no index, the documents are
\* read for the lazy build, and [] is returned when there are none
KS_Check ==
    \E query \in Queries, k \in KValues :
        /\ ks.pc \in {"idle", "done"}
        /\ LET all_docs == GetAllDocuments(FALSE)
               call == [KsIdle EXCEPT !.query = query, !.k = k]
           IN  ks' = IF ~IndexMissing THEN [call EXCEPT !.pc = "get_scores"]
                     ELSE IF all_docs = <<>> THEN [call EXCEPT !.pc = "done"]
                     ELSE [call EXCEPT !.pc = "lazy_index", !.documents = all_docs]
        /\ UNCHANGED <<storeVars, bm25Vars, outsideBM25, rb>>

\* the lazy build's self.bm25_index = BM25Okapi(tokenized_docs)
KS_LazyIndex ==
    /\ ks.pc = "lazy_index"
    /\ bm25_index' = BuildIndex(ks.documents)
    /\ ks' = [ks EXCEPT !.pc = "lazy_documents"]
    /\ UNCHANGED <<storeVars, bm25_documents, outsideBM25, rb>>

\* the lazy build's self.bm25_documents = documents
KS_LazyDocuments ==
    /\ ks.pc = "lazy_documents"
    /\ bm25_documents' = ks.documents
    /\ ks' = [ks EXCEPT !.pc = "get_scores"]
    /\ UNCHANGED <<storeVars, bm25_index, outsideBM25, rb>>

\* scores = self.bm25_index.get_scores(tokenized_query)
KS_GetScores ==
    /\ ks.pc = "get_scores"
    /\ ks' = [ks EXCEPT !.pc = "results", !.index = bm25_index]
    /\ UNCHANGED <<storeVars, bm25Vars, outsideBM25, rb>>

\* the result list, which looks the top indices up in self.bm25_documents
KS_Results ==
    /\ ks.pc = "results"
    /\ ks' = [ks EXCEPT !.pc = "done",
                        !.results = KeywordResults(ks.index, bm25_documents,
                                                   ks.query, ks.k)]
    /\ UNCHANGED <<storeVars, bm25Vars, outsideBM25, rb>>

NextBM25 ==
    \/ StoreIngest
    \/ StoreClear
    \/ RB_Read
    \/ RB_WriteIndex
    \/ RB_WriteDocuments
    \/ KS_Check
    \/ KS_LazyIndex
    \/ KS_LazyDocuments
    \/ KS_GetScores
    \/ KS_Results

SpecBM25 == Init /\ [][NextBM25]_vars

\* the SQL strings: SELECT <column> FROM <table> [LIMIT <limit_n>] [;], or
\* text that is no SQL statement (well_formed = FALSE)
SqlQueries ==
    {query \in [well_formed : BOOLEAN, column : {"*", "credit_limit", "nocol"},
                table : {TableA, TableX}, has_limit : BOOLEAN, limit_n : {1},
                terminator : BOOLEAN] :
        query.well_formed \/ (query.column = "*" /\ query.table = TableA)}

\* `'LIMIT' in query_upper`: the upper-cased text holds the letters LIMIT, in
\* a LIMIT clause or in a name such as credit_limit
ContainsLIMIT(query) == query.has_limit \/ query.column = "credit_limit"

\* `query_upper.endswith(';')`
EndsWithTerminator(query) == query.terminator

\* f"{query.rstrip(';')} LIMIT {limit}"
AppendLimit(query, limit) ==
    [query EXCEPT !.terminator = FALSE, !.has_limit = TRUE, !.limit_n = limit]

\* sqldf(query, self.dataframes): the tables are copied into an in-memory
\* SQLite database and the statement runs there; `error` is "" when it ran
Sqldf(query, dfs) ==
    IF ~query.well_formed THEN [error |-> "syntax error", rows |-> 0]
    ELSE IF query.table \notin DOMAIN dfs THEN [error |-> "no such table", rows |-> 0]
    ELSE IF query.column \notin {"*"} \cup Range(dfs[query.table].columns)
    THEN [error |-> "no such column", rows |-> 0]
    ELSE [error |-> "",
          rows |-> IF query.has_limit THEN Min(query.limit_n, dfs[query.table].rows)
                   ELSE dfs[query.table].rows]

\* the result of execute_query when sqldf raises only outside its try block:
\* an unknown table leaves execute_query as an exception
ExecuteQueryNarrowTry(query, limit, dfs) ==
    LET final == IF ~ContainsLIMIT(query) /\ ~EndsWithTerminator(query)
                 THEN AppendLimit(query, limit) ELSE query
        out == Sqldf(final, dfs)
    IN  [raised |-> out.error = "no such table", success |-> out.error = "",
         row_count |-> out.rows, error |-> out.error, query |-> final,
         dataframes |-> dfs]

\* SQLEngine.execute_query: everything runs inside `try`, and `except
\* Exception` turns what was raised into the error result
ExecuteQuery(query, limit, dfs) ==
    LET final == IF ~ContainsLIMIT(query) /\ ~EndsWithTerminator(query)
                 THEN AppendLimit(query, limit) ELSE query
        out == Sqldf(final, dfs)
    IN  [raised |-> FALSE, success |-> out.error = "",
         row_count |-> out.rows, error |-> out.error, query |-> final,
         dataframes |-> dfs]

\* KnowledgeBaseInitializer._load_csv_files_from_folder over the *.csv files
\* of one folder: a table that is already there is skipped
RECURSIVE InitializerLoadFiles(_, _)
InitializerLoadFiles(files, engine) ==
    IF files = <<>> THEN engine
    ELSE LET file == Head(files)
             table_name == SanitizeTableName(file.name)
             added == AddCsvFile(file, table_name, engine.dataframes, engine.table_schemas)
         IN  IF ~EndsWith(file.name, DotCsv) \/ table_name \in DOMAIN engine.dataframes
             THEN InitializerLoadFiles(Tail(files), engine)
             ELSE InitializerLoadFiles(Tail(files),
                    [dataframes |-> added.dataframes,
                     table_schemas |-> added.table_schemas,
                     count |-> engine.count + (IF added.value THEN 1 ELSE 0)])

SetEngine(e) ==
    /\ dataframes' = e.dataframes
    /\ table_schemas' = e.table_schemas

\* SQLEngine.load_all_csv_files
SQL_load_all_csv_files ==
    LET e == LoadAllCsvFiles(disk, dataframes, table_schemas)
    IN  /\ SetEngine(e)
        /\ SqlReturned("load_all_csv_files", e.count)
        /\ UNCHANGED <<disk, outsideSQL>>

\* SQLEngine.reload_csv_files
SQL_reload_csv_files ==
    LET e == ReloadCsvFiles(disk)
    IN  /\ SetEngine(e)
        /\ SqlReturned("reload_csv_files", e.count)
        /\ UNCHANGED <<disk, outsideSQL>>

\* SQLEngine.add_csv_file on a file of a CSV directory
SQL_add_csv_file ==
    \E d \in Range(csv_directories), given \in UploadTableNames :
      \E i \in 1..Len(disk[d]) :
        LET e == AddCsvFile(disk[d][i], given, dataframes, table_schemas)
        IN  /\ SetEngine(e)
            /\ SqlReturned("add_csv_file", e.value)
            /\ UNCHANGED <<disk, outsideSQL>>

\* CSVUploadView.post: 400 for a name that does not end in .csv; else the
\* file is saved and added under table_name or the sanitized stem
CSVUploadView_post ==
    \E file \in UploadFiles, given \in UploadTableNames :
        IF ~EndsWith(file.name, DotCsv)
        THEN /\ SqlReturned("CSVUploadView.post", 400)
             /\ UNCHANGED <<engineVars, disk, outsideSQL>>
        ELSE LET final_table_name ==
                    IF given # <<>> THEN given ELSE SanitizeTableName(Stem(file.name))
                 e == AddCsvFile(file, final_table_name, dataframes, table_schemas)
             IN  /\ disk' = SaveUpload(disk, file)
                 /\ SetEngine(e)
                 /\ SqlReturned("CSVUploadView.post", IF e.value THEN 200 ELSE 500)
                 /\ UNCHANGED outsideSQL

\* KnowledgeBaseInitializer._load_csv_files_from_folder on one folder
Initializer_load_csv_files ==
    \E d \in Range(csv_directories) :
        LET e == InitializerLoadFiles(disk[d],
                    [dataframes |-> dataframes, table_schemas |-> table_schemas,
                     count |-> 0])
        IN  /\ SetEngine(e)
            /\ SqlReturned("initialization", e.count)
            /\ UNCHANGED <<disk, outsideSQL>>

\* SQLEngine.execute_query
SQL_execute_query ==
    \E query \in SqlQueries, limit \in 1..MaxLimit :
        LET result == ExecuteQuery(query, limit, dataframes)
        IN  /\ dataframes' = result.dataframes
            /\ sqlret' = [op |-> "execute_query", value |-> result,
                          input |-> query, limit |-> limit]
            /\ UNCHANGED <<table_schemas, disk, outsideSQL>>

InitSQL == StoreInit /\ \E files \in InitialDisks : EngineInit(files)

NextSQL ==
    \/ SQL_load_all_csv_files
    \/ SQL_reload_csv_files
    \/ SQL_add_csv_file
    \/ CSVUploadView_post
    \/ Initializer_load_csv_files
    \/ SQL_execute_query

SpecSQL == InitSQL /\ [][NextSQL]_vars

\* ------------------------------------ the SQLEngine under request threads
\* Django serves each request on its own thread and the engine takes no lock:
\* a loader is the sequence of its reads and writes of self.dataframes and
\* self.table_schemas, and the steps of the threads interleave.

\* the listing the loop of load_all_csv_files walks, directory after directory
AllFiles == disk[csv_directories[1]] \o disk[csv_directories[2]]

WrSet(t, w) == wr' = [wr EXCEPT ![t] = w]

\* a loader returns `value`
WrReturn(t, value) ==
    /\ wr' = [wr EXCEPT ![t] = WrIdle]
    /\ SqlReturned(wr[t].op, value)

\* a thread enters reload_csv_files
W_reload_csv_files ==
    \E t \in Writers :
        /\ wr[t].pc = "idle"
        /\ WrSet(t, [WrIdle EXCEPT !.pc = "clear_dataframes", !.op = "reload_csv_files"])
        /\ UNCHANGED <<sqlVars, rd, outsideThreads>>

\* self.dataframes.clear()
W_ClearDataframes ==
    \E t \in Writers :
        /\ wr[t].pc = "clear_dataframes"
        /\ dataframes' = NoTables
        /\ WrSet(t, [wr[t] EXCEPT !.pc = "clear_schemas", !.wrote = TRUE])
        /\ UNCHANGED <<table_schemas, disk, sqlret, rd, outsideThreads>>

\* self.table_schemas.clear(), then into load_all_csv_files
W_ClearSchemas ==
    \E t \in Writers :
        /\ wr[t].pc = "clear_schemas"
        /\ table_schemas' = NoTables
        /\ WrSet(t, [wr[t] EXCEPT !.pc = "load_next", !.files = AllFiles])
        /\ UNCHANGED <<dataframes, disk, sqlret, rd, outsideThreads>>

\* a thread enters load_all_csv_files
W_load_all_csv_files ==
    \E t \in Writers :
        /\ wr[t].pc = "idle"
        /\ WrSet(t, [WrIdle EXCEPT !.pc = "load_next", !.op = "load_all_csv_files",
                                   !.files = AllFiles])
        /\ UNCHANGED <<sqlVars, rd, outsideThreads>>

\* one turn of the loop of load_all_csv_files up to the read of the file: the
\* name test, the `table_name in self.dataframes` test, _read_csv_with_encoding
W_LoadNext ==
    \E t \in Writers :
        /\ wr[t].pc = "load_next"
        /\ IF wr[t].files = <<>>
           THEN WrReturn(t, wr[t].count)
           ELSE LET file == Head(wr[t].files)
                    table_name == SanitizeTableName(file.name)
                IN  /\ IF ~EndsWith(StrLower(file.name), DotCsv)
                          \/ table_name \in DOMAIN dataframes
                          \/ ~ReadCsvWithEncoding(file).ok
                       THEN WrSet(t, [wr[t] EXCEPT !.files = Tail(@)])
                       ELSE WrSet(t, [wr[t] EXCEPT !.pc = "set_dataframe",
                                         !.file = file, !.table_name = table_name])
                    /\ UNCHANGED sqlret
        /\ UNCHANGED <<engineVars, disk, rd, outsideThreads>>

\* a thread enters add_csv_file(file_path) for a *.csv file of a CSV directory,
\* as the start-up loader and the upload endpoint call it, and reads the file
W_add_csv_file ==
    \E t \in Writers :
      \E i \in 1..Len(AllFiles) :
        LET file == AllFiles[i]
            table_name == SanitizeTableName(file.name)
        IN  /\ wr[t].pc = "idle"
            /\ EndsWith(file.name, DotCsv)
            /\ IF ~ReadCsvWithEncoding(file).ok
               THEN /\ SqlReturned("add_csv_file", FALSE)
                    /\ UNCHANGED wr
               ELSE /\ WrSet(t, [WrIdle EXCEPT !.pc = "set_dataframe",
                                    !.op = "add_csv_file", !.file = file,
                                    !.table_name = table_name])
                    /\ UNCHANGED sqlret
            /\ UNCHANGED <<engineVars, disk, rd, outsideThreads>>

\* self.dataframes[table_name] = df
W_SetDataframe ==
    \E t \in Writers :
        /\ wr[t].pc = "set_dataframe"
        /\ dataframes' = Put(dataframes, wr[t].table_name, ReadCsvWithEncoding(wr[t].file))
        /\ WrSet(t, [wr[t] EXCEPT !.pc = "set_schema", !.wrote = TRUE])
        /\ UNCHANGED <<table_schemas, disk, sqlret, rd, outsideThreads>>

\* self.table_schemas[table_name] = self._get_schema(df)
W_SetSchema ==
    \E t \in Writers :
        /\ wr[t].pc = "set_schema"
        /\ table_schemas' = Put(table_schemas, wr[t].table_name,
                                GetSchema(ReadCsvWithEncoding(wr[t].file)))
        /\ IF wr[t].op = "add_csv_file"
           THEN WrReturn(t, TRUE)
           ELSE /\ WrSet(t, [wr[t] EXCEPT !.pc = "load_next", !.files = Tail(@),
                                          !.count = @ + 1])
                /\ UNCHANGED sqlret
        /\ UNCHANGED <<dataframes, disk, rd, outsideThreads>>

TableNames == {TableA, TableB, TableX}

\* get_available_tables: list(self.dataframes.keys())
R_get_available_tables ==
    /\ rd.pc = "idle"
    /\ rd' = [RdIdle EXCEPT !.pc = "done", !.op = "get_available_tables",
                            !.tables = DOMAIN dataframes]
    /\ UNCHANGED <<sqlVars, wr, outsideThreads>>

\* get_table_schema(table_name): `if table_name in self.table_schemas`
R_get_table_schema ==
    \E table_name \in TableNames :
        /\ rd.pc = "idle"
        /\ rd' = [RdIdle EXCEPT !.op = "get_table_schema", !.table_name = table_name,
                     !.found = table_name \in DOMAIN table_schemas,
                     !.pc = IF table_name \in DOMAIN table_schemas
                            THEN "row_count" ELSE "done"]
        /\ UNCHANGED <<sqlVars, wr, outsideThreads>>

\* 'row_count': len(self.dataframes[table_name]): KeyError when the name is
\* not a key
R_RowCount ==
    /\ rd.pc = "row_count"
    /\ rd' = IF rd.table_name \in DOMAIN dataframes
             THEN [rd EXCEPT !.pc = "columns"]
             ELSE [rd EXCEPT !.pc = "done", !.raised = TRUE]
    /\ UNCHANGED <<sqlVars, wr, outsideThreads>>

\* 'columns': self.table_schemas[table_name]: KeyError when the name is not a
\* key
R_Columns ==
    /\ rd.pc = "columns"
    /\ rd' = IF rd.table_name \in DOMAIN table_schemas
             THEN [rd EXCEPT !.pc = "done"]
             ELSE [rd EXCEPT !.pc = "done", !.raised = TRUE]
    /\ UNCHANGED <<sqlVars, wr, outsideThreads>>

\* the reader's request ends
R_Return ==
    /\ rd.pc = "done"
    /\ rd' = RdIdle
    /\ UNCHANGED <<sqlVars, wr, outsideThreads>>

NextSQLThreads ==
    \/ W_reload_csv_files
    \/ W_ClearDataframes
    \/ W_ClearSchemas
    \/ W_load_all_csv_files
    \/ W_LoadNext
    \/ W_add_csv_file
    \/ W_SetDataframe
    \/ W_SetSchema
    \/ R_get_available_tables
    \/ R_get_table_schema
    \/ R_RowCount
    \/ R_Columns
    \/ R_Return

\* the engine constructed over a table in each CSV directory
InitSQLThreads ==
    /\ StoreInit
    /\ EngineInit(CHOOSE files \in InitialDisks : files["./uploaded_docs"] = <<File2B>>)

SpecSQLThreads == InitSQLThreads /\ [][NextSQLThreads]_vars

\* ---------------------------------------- MasterOrchestrator.process_query
\* One session; a text is a string; confidence_score is in tenths.

\* max_messages in `get_conversation_context(session_id, max_messages=5)`
ContextMessages == 5

SessionId == "s1"

OrchQueries == {"fees"}

\* what classify_query answers with
QueryTypes == {"sql", "rag", "hybrid"}

\* result["output"] of the agent executor: None or '', blank, a text
AgentOutputs == {"", " ", "answer"}

\* the tools of result["intermediate_steps"], in call order
ToolRuns == {<<>>, <<"sql_query">>, <<"rag_search">>, <<"sql_query", "rag_search">>,
             <<"get_available_tables", "rag_search">>}

\* the collaborator call that raises in one process_query, if any
Failures == {"none", "get_or_create_memory", "get_conversation_context",
             "add_user_message", "classify_query", "enhance_query",
             "agent_executor", "add_assistant_message", "summarize_if_needed"}

SqlToolNames == {"sql_query", "get_sql_schema", "table_preview"}

\* the `sources` list built from the intermediate steps
SourcesOf(steps) ==
    MapSeq(SelectSeq(steps, LAMBDA tool : tool \in SqlToolNames \cup {"rag_search"}),
           LAMBDA tool : [type |-> IF tool \in SqlToolNames THEN "sql" ELSE "rag",
                          tool |-> tool])

\* `not answer or answer is None` turns the output into the stock sentence
AnswerOf(output) ==
    IF output = "" THEN "I couldn't process your query properly." ELSE output

\* `answer and isinstance(answer, str) and len(answer.strip()) > 0`
IsValidAnswer(answer) == answer \notin {"", " "}

\* the dict of the `except Exception` branch
DegradedResponse ==
    [answer |-> "I encountered an error processing your query", sources |-> <<>>,
     session_id |-> SessionId, classification |-> "None", tools_used |-> <<>>,
     sql_used |-> FALSE, rag_used |-> FALSE, hybrid_mode |-> FALSE,
     confidence_score |-> 0]

\* the dict of the `try` branch
FullResponse(classification, output, steps) ==
    LET sources == SourcesOf(steps)
        sql_used == \E i \in 1..Len(steps) : steps[i] \in SqlToolNames
        rag_used == \E i \in 1..Len(steps) : steps[i] = "rag_search"
    IN  [answer |-> AnswerOf(output), sources |-> sources, session_id |-> SessionId,
         classification |-> classification, tools_used |-> steps,
         sql_used |-> sql_used, rag_used |-> rag_used,
         hybrid_mode |-> sql_used /\ rag_used,
         confidence_score |-> IF sources # <<>> THEN 9 ELSE 5]

\* get_conversation_context(session_id, max_messages): `messages[-max_messages:]`
\* on the QuerySet raises ("Negative indexing is not supported") when the
\* session holds more than max_messages rows; only DoesNotExist is caught
ConversationContext(msgs, max_messages, fails) ==
    IF fails THEN [raised |-> TRUE, exception |-> "DatabaseError", context |-> <<>>]
    ELSE IF max_messages > 0 /\ Len(msgs) > max_messages
    THEN [raised |-> TRUE, exception |-> "ValueError", context |-> <<>>]
    ELSE [raised |-> FALSE, exception |-> "", context |-> msgs]

Raised(exception) == [op |-> "process_query", raised |-> TRUE, exception |-> exception]

ReturnedResponse(value) == [op |-> "process_query", raised |-> FALSE, value |-> value]

\* the collaborator calls of one process_query, in the order of the code
PlannedCalls(use_classification, use_enhancement, output) ==
    <<"get_or_create_memory", "get_conversation_context", "add_user_message">>
    \o (IF use_classification THEN <<"classify_query">> ELSE <<>>)
    \o (IF use_enhancement THEN <<"enhance_query">> ELSE <<>>)
    \o <<"agent_executor">>
    \o (IF IsValidAnswer(AnswerOf(output)) THEN <<"add_assistant_message">> ELSE <<>>)
    \o <<"summarize_if_needed">>

\* the calls up to the first one that raises
CallsUntil(planned, raising) ==
    IF \E i \in 1..Len(planned) : planned[i] \in raising
    THEN SubSeq(planned, 1, CHOOSE i \in 1..Len(planned) :
                               /\ planned[i] \in raising
                               /\ \A j \in 1..(i - 1) : planned[j] \notin raising)
    ELSE planned

\* process_query(query, session_id, use_classification, use_enhancement) on the
\* stored messages `msgs`: the messages it leaves, the collaborator calls it
\* made, and what it returns or raises
ProcessQuery(msgs, query, use_classification, use_enhancement, fail, query_type, output, steps) ==
    LET context == ConversationContext(msgs, ContextMessages,
                                       fail = "get_conversation_context")
        with_user == Append(msgs, [role |-> "user", content |-> query])
        answer == AnswerOf(output)
        with_answer == IF IsValidAnswer(answer)
                       THEN Append(with_user, [role |-> "assistant", content |-> answer])
                       ELSE with_user
        calls == CallsUntil(PlannedCalls(use_classification, use_enhancement, output),
                            {fail} \cup (IF context.raised
                                         THEN {"get_conversation_context"} ELSE {}))
        last == calls[Len(calls)]
        raised == last = fail \/ (last = "get_conversation_context" /\ context.raised)
    IN  IF raised /\ last = "get_conversation_context"
        THEN [messages |-> msgs, calls |-> calls, response |-> Raised(context.exception)]
        ELSE IF raised /\ last \in {"get_or_create_memory", "add_user_message"}
        THEN [messages |-> msgs, calls |-> calls, response |-> Raised("DatabaseError")]
        ELSE IF raised /\ last \in {"classify_query", "enhance_query", "agent_executor",
                                    "add_assistant_message"}
        THEN [messages |-> with_user, calls |-> calls,
              response |-> ReturnedResponse(DegradedResponse)]
        ELSE IF raised
        THEN [messages |-> with_answer, calls |-> calls,
              response |-> ReturnedResponse(DegradedResponse)]
        ELSE [messages |-> with_answer, calls |-> calls,
              response |-> ReturnedResponse(
                  FullResponse(IF use_classification THEN query_type ELSE "None",
                               output, steps))]

\* the runs of the collaborators in one process_query: which call raises, and
\* what the classifier and the agent executor give in a run where their values
\* reach the response
ProcessQueryRuns ==
    {run \in [fail : Failures, query_type : QueryTypes, output : AgentOutputs,
              steps : ToolRuns] :
        /\ run.fail \notin {"none", "add_assistant_message", "summarize_if_needed"}
              => run.output = "answer"
        /\ run.fail # "none" => (run.steps = <<>> /\ run.query_type = "rag")}

\* one request to MasterOrchestrator.process_query
MasterOrchestrator_process_query ==
    \E query \in OrchQueries, use_classification \in BOOLEAN,
       use_enhancement \in BOOLEAN, run \in ProcessQueryRuns :
        LET done == ProcessQuery(messages, query, use_classification, use_enhancement,
                                 run.fail, run.query_type, run.output, run.steps)
        IN  /\ Len(done.messages) <= MaxMessages
            /\ messages' = done.messages
            /\ response' = done.response @@ [calls |-> done.calls, retrieved |-> 0]
            /\ UNCHANGED <<storeVars, bm25Vars, ret, threadVars, sqlVars, sqlThreadVars, executor>>

\* ------------------------------------------------- RAGAgent.process_query
\* retrieval scores are in tenths, as confidence_score is

\* config.SIMILARITY_THRESHOLD = 0.7
SIMILARITY_THRESHOLD == 7

\* what self.retriever.retrieve gives: the retrieval_score of each document
KbDocs == {<<>>, <<6>>, <<8, 6>>}

\* the collaborators of RAGAgent.process_query that raise in one run
RagFailures == SUBSET {"retrieve", "agent_executor", "llm"}

RagToolRuns == {<<>>, <<"search_knowledge_base">>, <<"search_web">>}

RagApology == "I encountered an issue processing your query. Please try again."

\* response_enhancer.enhance_response: the answer formatted and turned into HTML
EnhanceResponse(answer) ==
    CASE answer = "answer" -> "<p>answer</p><h3>follow-up</h3>"
      [] answer = "llm answer" -> "<p>llm answer</p><h3>follow-up</h3>"
      [] answer = RagApology -> "<p>apology</p><h3>follow-up</h3>"
      [] OTHER -> "<h3>follow-up</h3>"

\* the `sources` of the knowledge-base documents: kb_docs[:3]
KbSources(kb_docs) ==
    [i \in 1..Min(3, Len(kb_docs)) |-> [type |-> "knowledge_base"]]

\* the `sources` built from the intermediate steps of the agent
RagStepSources(steps) ==
    MapSeq(SelectSeq(steps, LAMBDA tool : tool \in {"search_knowledge_base", "search_web"}),
           LAMBDA tool : [type |-> IF tool = "search_web" THEN "web" ELSE "knowledge_base"])

\* min(max(retrieval scores) if kb_docs else 0.5, 1.0)
RagConfidence(kb_docs) ==
    IF kb_docs = <<>> THEN 5
    ELSE Min(CHOOSE best \in Range(kb_docs) : \A score \in Range(kb_docs) : score <= best,
             10)

RagError ==
    [answer |-> "I encountered an error processing your query", sources |-> <<>>,
     session_id |-> SessionId, web_search_used |-> FALSE, confidence_score |-> 0]

\* the body of the `try` of RAGAgent.process_query up to the answer: the calls
\* made, and the answer and sources, or failed = TRUE when a call raised to
\* the outer `except`
RagAnswer(kb_docs, use_web_search, fails, steps) ==
    LET has_good_kb_results ==
            \E i \in 1..Len(kb_docs) : kb_docs[i] > SIMILARITY_THRESHOLD
        llm == [calls |-> <<"llm">>, failed |-> "llm" \in fails,
                answer |-> "llm answer", sources |-> KbSources(kb_docs),
                web_search_used |-> FALSE]
        after(calls, r) == [r EXCEPT !.calls = calls \o @]
    IN  IF "retrieve" \in fails
        THEN [calls |-> <<"retrieve">>, failed |-> TRUE, answer |-> "",
              sources |-> <<>>, web_search_used |-> FALSE]
        ELSE IF has_good_kb_results /\ ~use_web_search
        THEN after(<<"retrieve">>, llm)
        ELSE IF "agent_executor" \notin fails
        THEN [calls |-> <<"retrieve", "agent_executor">>, failed |-> FALSE,
              answer |-> "answer",
              sources |-> IF RagStepSources(steps) = <<>> THEN KbSources(kb_docs)
                          ELSE RagStepSources(steps),
              web_search_used |-> \E i \in 1..Len(steps) : steps[i] = "search_web"]
        ELSE IF kb_docs # <<>>
        THEN after(<<"retrieve", "agent_executor">>, llm)
        ELSE [calls |-> <<"retrieve", "agent_executor">>, failed |-> FALSE,
              answer |-> RagApology, sources |-> <<>>, web_search_used |-> FALSE]

\* RAGAgent.process_query(query, session_id, use_web_search, enhance_formatting)
\* on the stored messages `msgs`
RagProcessQuery(msgs, query, kb_docs, use_web_search, enhance_formatting, fails, steps) ==
    LET context == ConversationContext(msgs, ContextMessages, FALSE)
        with_user == Append(msgs, [role |-> "user", content |-> query])
        got == RagAnswer(kb_docs, use_web_search, fails, steps)
        answer == IF enhance_formatting THEN EnhanceResponse(got.answer) ELSE got.answer
        before == <<"get_or_create_memory", "get_conversation_context">>
    IN  IF context.raised
        THEN [messages |-> msgs, calls |-> before,
              response |-> [op |-> "RAGAgent.process_query", raised |-> TRUE,
                            exception |-> context.exception]]
        ELSE IF got.failed
        THEN [messages |-> with_user,
              calls |-> before \o <<"add_user_message">> \o got.calls,
              response |-> [op |-> "RAGAgent.process_query", raised |-> FALSE,
                            value |-> RagError]]
        ELSE [messages |-> Append(with_user, [role |-> "assistant", content |-> answer]),
              calls |-> before \o <<"add_user_message">> \o got.calls
                       \o <<"add_assistant_message", "summarize_if_needed">>,
              response |-> [op |-> "RAGAgent.process_query", raised |-> FALSE,
                            value |-> [answer |-> answer, sources |-> got.sources,
                                       session_id |-> SessionId,
                                       web_search_used |-> got.web_search_used,
                                       confidence_score |-> RagConfidence(kb_docs)]]]

\* one request to RAGAgent.process_query
RAGAgent_process_query ==
    \E query \in OrchQueries, kb_docs \in KbDocs, use_web_search \in BOOLEAN,
       enhance_formatting \in BOOLEAN, fails \in RagFailures, steps \in RagToolRuns :
        LET done == RagProcessQuery(messages, query, kb_docs, use_web_search,
                                    enhance_formatting, fails, steps)
        IN  /\ Len(done.messages) <= MaxMessages
            /\ fails # {} => steps = <<>>
            /\ messages' = done.messages
            /\ response' = done.response @@ [calls |-> done.calls,
                                             retrieved |-> Len(kb_docs)]
            /\ UNCHANGED <<storeVars, bm25Vars, ret, threadVars, sqlVars, sqlThreadVars, executor>>

\* ConversationMemoryManager.clear_session
ClearSession ==
    /\ messages # <<>>
    /\ messages' = <<>>
    /\ response' = [op |-> "clear_session", raised |-> FALSE]
    /\ UNCHANGED <<storeVars, bm25Vars, ret, threadVars, sqlVars, sqlThreadVars, executor>>

NextOrch ==
    \/ MasterOrchestrator_process_query
    \/ ClearSession

SpecOrch == Init /\ [][NextOrch]_vars

NextRAG ==
    \/ RAGAgent_process_query
    \/ ClearSession

SpecRAG == Init /\ [][NextRAG]_vars

\* ------------------------------------- process_query over the tool-call loop
\* AgentExecutor(max_iterations=10, return_intermediate_steps=True): its loop
\* asks the LLM for the next step while the iteration count is below the cap,
\* returns at an AgentFinish, and at the cap returns the forced stop output.

\* max_iterations of the AgentExecutor
max_iterations == 10

\* the tool the LLM calls in the loop
LoopTools == {"sql_query"}

AgentStopped == "Agent stopped due to iteration limit or time limit."

\* the loop condition with the cap one too high
ShouldContinueOneMore(iterations) == iterations <= max_iterations

\* AgentExecutor._should_continue
ShouldContinue(iterations) == iterations < max_iterations

outsideOrch == <<storeVars, bm25Vars, ret, threadVars, sqlVars, sqlThreadVars>>

\* process_query up to agent_executor.invoke: the session calls and the user
\* message (classification and enhancement off)
PQ_Invoke ==
    /\ executor.pc = "idle"
    /\ ~ConversationContext(messages, ContextMessages, FALSE).raised
    /\ messages' = Append(messages, [role |-> "user", content |-> "fees"])
    /\ executor' = [ExecutorIdle EXCEPT !.pc = "loop"]
    /\ UNCHANGED <<response, outsideOrch>>

\* one iteration that ends in a tool call
AE_ToolCall ==
    \E tool \in LoopTools :
        /\ executor.pc = "loop"
        /\ ShouldContinue(executor.iterations)
        /\ executor' = [executor EXCEPT !.steps = Append(@, tool),
                                        !.iterations = @ + 1]
        /\ UNCHANGED <<messages, response, outsideOrch>>

\* one iteration in which the LLM gives its final answer
AE_Finish ==
    /\ executor.pc = "loop"
    /\ ShouldContinue(executor.iterations)
    /\ executor' = [executor EXCEPT !.pc = "finished", !.output = "answer"]
    /\ UNCHANGED <<messages, response, outsideOrch>>

\* the loop is left at the cap
AE_Stop ==
    /\ executor.pc = "loop"
    /\ ~ShouldContinue(executor.iterations)
    /\ executor' = [executor EXCEPT !.pc = "finished", !.output = AgentStopped]
    /\ UNCHANGED <<messages, response, outsideOrch>>

\* process_query after agent_executor.invoke: the answer, the sources, the
\* assistant message, the response
PQ_Return ==
    /\ executor.pc = "finished"
    /\ messages' = Append(messages, [role |-> "assistant",
                                     content |-> AnswerOf(executor.output)])
    /\ response' = ReturnedResponse(FullResponse("None", executor.output, executor.steps))
                      @@ [calls |-> PlannedCalls(FALSE, FALSE, executor.output),
                          retrieved |-> 0]
    /\ executor' = ExecutorIdle
    /\ UNCHANGED outsideOrch

\* ConversationMemoryManager.clear_session between two requests
PQ_ClearSession ==
    /\ executor.pc = "idle"
    /\ messages # <<>>
    /\ messages' = <<>>
    /\ response' = [op |-> "clear_session", raised |-> FALSE]
    /\ UNCHANGED <<executor, outsideOrch>>

NextAgent ==
    \/ PQ_Invoke
    \/ AE_ToolCall
    \/ AE_Finish
    \/ AE_Stop
    \/ PQ_Return
    \/ PQ_ClearSession

\* a thread that can take a step takes one: the LLM and the tools answer
SpecAgent == Init /\ [][NextAgent]_vars /\ WF_vars(NextAgent)

\* ------------------------------------------------- reciprocal_rank_fusion
\* A search result is [id, doc, score]: id is id(doc), the identity of the
\* Python object. Weights are in tenths. A fused score is kept exactly, as
\* the integer RrfScale * 10 * score, so that scores compare as the reals do.

rrf_constant == 60

\* a common multiple of the denominators rrf_constant + rank + 1
RECURSIVE RrfProduct(_)
RrfProduct(n) == IF n = 0 THEN 1 ELSE (rrf_constant + n) * RrfProduct(n - 1)

RrfScale == RrfProduct(MaxRank)

\* a term that grows with the rank instead of shrinking
RrfTermRankUp(weight, rank) == weight * (rank + 1)

\* weight / (rrf_constant + rank + 1) for the 0-indexed rank
RrfTerm(weight, rank) == weight * (RrfScale \div (rrf_constant + rank + 1))

\* the ids in the order the dict doc_scores first gets them
RECURSIVE Dedup(_)
Dedup(ids) ==
    IF ids = <<>> THEN <<>>
    ELSE LET front == Dedup(SubSeq(ids, 1, Len(ids) - 1))
             last == ids[Len(ids)]
         IN  IF last \in Range(front) THEN front ELSE Append(front, last)

\* sum of weight / (rrf_constant + rank + 1) over the entries of `results`
\* whose object is `id`
RECURSIVE RrfSum(_, _, _)
RrfSum(results, id, weight) ==
    IF results = <<>> THEN 0
    ELSE RrfSum(SubSeq(results, 1, Len(results) - 1), id, weight)
         + (IF results[Len(results)].id = id
            THEN RrfTerm(weight, Len(results) - 1) ELSE 0)

\* sorted(..., key=score, reverse=True): descending, equal scores in the
\* order they have in `entries`
SortedByScore(entries) ==
    LET place(i) == 1 + Cardinality({j \in 1..Len(entries) :
                        \/ entries[j].rrf_score > entries[i].rrf_score
                        \/ (entries[j].rrf_score = entries[i].rrf_score /\ j < i)})
    IN  [p \in 1..Len(entries) |->
            entries[CHOOSE i \in 1..Len(entries) : place(i) = p]]

\* the document object `id` as the two loops leave it
RrfDoc(results, id) ==
    results[CHOOSE i \in 1..Len(results) : results[i].id = id].doc

\* HybridRetriever.reciprocal_rank_fusion: the documents of sorted_docs[:k],
\* each with the rrf_score of its metadata
ReciprocalRankFusion(semantic_results, keyword_results, k, semantic_weight) ==
    LET keyword_weight == 10 - semantic_weight
        both == semantic_results \o keyword_results
        ids == Dedup([i \in 1..Len(both) |-> both[i].id])
        entries == [n \in 1..Len(ids) |->
                      [id |-> ids[n], doc |-> RrfDoc(both, ids[n]),
                       rrf_score |-> RrfSum(semantic_results, ids[n], semantic_weight)
                                     + RrfSum(keyword_results, ids[n], keyword_weight)]]
        sorted_docs == SortedByScore(entries)
    IN  SubSeq(sorted_docs, 1, Min(k, Len(sorted_docs)))

\* document objects handed to reciprocal_rank_fusion by a direct caller
RrfObjects == {"A", "B", "C", "D"}

\* the result lists over these objects: no object twice in one list
RECURSIVE RrfLists(_)
RrfLists(n) ==
    IF n = 0 THEN {<<>>}
    ELSE RrfLists(n - 1) \cup
         {Append(l, [id |-> o, doc |-> o, score |-> 1]) :
            l \in {l \in RrfLists(n - 1) : Len(l) = n - 1},
            o \in RrfObjects}

DistinctIds(results) ==
    \A i, j \in 1..Len(results) : results[i].id = results[j].id => i = j

RrfInputs == {l \in RrfLists(MaxRank) : DistinctIds(l)}

\* semantic_weight with 0 < semantic_weight < 1
RrfWeights == {1, 5, 6, 9}

\* one call of reciprocal_rank_fusion with k = 10; the function reads no
\* state, so each call is taken from the initial state
RRF_Call ==
    \E semantic_results \in RrfInputs, keyword_results \in RrfInputs,
       semantic_weight \in RrfWeights :
        /\ ret.op = "init"
        /\ ret' = [op |-> "reciprocal_rank_fusion", ok |-> TRUE,
                   results |-> ReciprocalRankFusion(semantic_results, keyword_results,
                                                    10, semantic_weight),
                   semantic_results |-> semantic_results,
                   keyword_results |-> keyword_results,
                   semantic_weight |-> semantic_weight]
        /\ UNCHANGED <<storeVars, bm25Vars, otherVars>>

NextRRF == RRF_Call

SpecRRF == Init /\ [][NextRRF]_vars

\* ------------------------------------------------------------ hybrid_search

\* sequences of `m` distinct positions of the child collection
RECURSIVE Rankings(_)
Rankings(m) ==
    IF m = 0 THEN {<<>>}
    ELSE {Append(r, p) : r \in Rankings(m - 1),
                         p \in 1..Len(child_store)}

DistinctPositions(r) == \A i, j \in 1..Len(r) : r[i] = r[j] => i = j

\* what vector_store.similarity_search_with_score(query, k, threshold=0.0) can
\* give: the embedding model ranks the chunks, the threshold keeps a prefix,
\* and [:k] cuts it; each result is a Document object made by this search
SemanticRankings(k) ==
    UNION {{r \in Rankings(m) : DistinctPositions(r)} :
              m \in 0..Min(Max(1, k), Len(child_store))}

SemanticResults(ranking) ==
    [i \in 1..Len(ranking) |->
        [id |-> [made_by |-> "similarity_search", n |-> i],
         doc |-> [page_content |-> child_store[ranking[i]].content,
                  parent_id |-> child_store[ranking[i]].parent_id,
                  chunk_index |-> child_store[ranking[i]].chunk_index],
         score |-> Len(ranking) - i]]

\* the results of keyword_search as reciprocal_rank_fusion gets them: the
\* Document objects are the ones held in bm25_documents
KeywordObjects(results, documents) ==
    [i \in 1..Len(results) |->
        [id |-> [made_by |-> "bm25_documents",
                 n |-> CHOOSE idx \in 1..Len(documents) : documents[idx] = results[i].doc],
         doc |-> results[i].doc, score |-> results[i].score]]

\* cross_encoder_rerank: the cross-encoder's order (the fused order turned
\* round here), cut to top_n; "none" when no cross-encoder is loaded
Reranks == {"none", "reverse"}

FinalDocs(fused_docs, k, rerank) ==
    LET ordered == IF rerank = "reverse" THEN Reverse(fused_docs) ELSE fused_docs
    IN  SubSeq(ordered, 1, Min(k, Len(ordered)))

\* the k of a hybrid_search
HybridK == {2}

HybridQueries == {<<"fee">>, <<"visa">>}

\* config.SEMANTIC_WEIGHT = 0.6
SEMANTIC_WEIGHT == 6

\* HybridRetriever.hybrid_search(query, k): semantic_search raises when the
\* embedding call fails; keyword_search may build the index first
HybridSearch ==
    \E query \in HybridQueries, k \in HybridK, embeddingFails \in BOOLEAN,
       readFails \in {r \in BOOLEAN : r => IndexMissing}, rerank \in Reranks :
      /\ Len(child_store) <= MaxRank
      /\ Len(bm25_documents) <= MaxRank
      /\ \E ranking \in IF embeddingFails THEN {<<>>} ELSE SemanticRankings(k * 2) :
        LET all_docs == GetAllDocuments(readFails)
            build == IndexMissing /\ all_docs # <<>>
            index == IF build THEN BuildIndex(all_docs) ELSE bm25_index
            documents == IF build THEN all_docs ELSE bm25_documents
            keyword == IF IndexMissing /\ all_docs = <<>> THEN <<>>
                       ELSE KeywordResults(index, documents, query, k * 2)
            semantic_results == SemanticResults(ranking)
            keyword_results == KeywordObjects(keyword, documents)
            fused_docs == ReciprocalRankFusion(semantic_results, keyword_results,
                                               k * 2, SEMANTIC_WEIGHT)
        IN  /\ IF embeddingFails
               THEN /\ ret' = [op |-> "hybrid_search", ok |-> FALSE, results |-> <<>>,
                               embedding |-> "unreachable",
                               semantic_results |-> <<>>,
                               keyword_results |-> keyword_results]
                    /\ UNCHANGED bm25Vars
               ELSE /\ ret' = [op |-> "hybrid_search", ok |-> TRUE,
                               results |-> FinalDocs(fused_docs, k, rerank),
                               embedding |-> "ok",
                               semantic_results |-> semantic_results,
                               keyword_results |-> keyword_results]
                    /\ bm25_index' = index
                    /\ bm25_documents' = documents
            /\ embeddingFails => rerank = "none"
            /\ UNCHANGED <<storeVars, otherVars>>

NextHybrid ==
    \/ MasterOrchestrator_add_documents
    \/ HybridSearch

SpecHybrid == Init /\ [][NextHybrid]_vars

\* ------------------------------------------------------------ QueryClassifier
\* A query, a keyword and an LLM response are sequences of characters.

\* QueryClassifier.sql_keywords
sql_keywords ==
    {<<"c", "o", "u", "n", "t">>,
     <<"t", "o", "t", "a", "l">>,
     <<"s", "u", "m">>,
     <<"a", "v", "e", "r", "a", "g", "e">>,
     <<"m", "a", "x">>,
     <<"m", "i", "n">>,
     <<"h", "o", "w", " ", "m", "a", "n", "y">>,
     <<"l", "i", "s", "t", " ", "a", "l", "l">>,
     <<"s", "h", "o", "w", " ", "a", "l", "l">>,
     <<"f", "i", "l", "t", "e", "r">>,
     <<"w", "h", "e", "r", "e">>,
     <<"g", "r", "o", "u", "p", " ", "b", "y">>,
     <<"a", "g", "g", "r", "e", "g", "a", "t", "e">>,
     <<"s", "t", "a", "t", "i", "s", "t", "i", "c", "s">>,
     <<"t", "o", "p">>,
     <<"b", "o", "t", "t", "o", "m">>,
     <<"r", "a", "n", "k", "i", "n", "g">>,
     <<"f", "e", "e", "s">>,
     <<"f", "e", "e">>,
     <<"p", "r", "o", "v", "i", "d", "e", "r">>,
     <<"p", "r", "o", "v", "i", "d", "e", "r", "s">>,
     <<"c", "o", "u", "r", "s", "e">>,
     <<"c", "o", "u", "r", "s", "e", "s">>,
     <<"d", "a", "t", "a">>,
     <<"r", "e", "c", "o", "r", "d", "s">>,
     <<"e", "n", "t", "r", "i", "e", "s">>,
     <<"p", "r", "i", "c", "e">>,
     <<"c", "o", "s", "t">>,
     <<"d", "e", "g", "r", "e", "e">>,
     <<"d", "e", "g", "r", "e", "e", "s">>}

\* QueryClassifier.rag_keywords
rag_keywords ==
    {<<"h", "o", "w", " ", "t", "o">>,
     <<"w", "h", "a", "t", " ", "i", "s">>,
     <<"e", "x", "p", "l", "a", "i", "n">>,
     <<"d", "e", "s", "c", "r", "i", "b", "e">>,
     <<"w", "h", "y">>,
     <<"p", "r", "o", "c", "e", "s", "s">>,
     <<"p", "r", "o", "c", "e", "d", "u", "r", "e">>,
     <<"s", "t", "e", "p", "s">>,
     <<"g", "u", "i", "d", "e">>,
     <<"o", "v", "e", "r", "v", "i", "e", "w">>,
     <<"c", "o", "n", "c", "e", "p", "t">>,
     <<"d", "e", "f", "i", "n", "i", "t", "i", "o", "n">>,
     <<"m", "e", "a", "n", "i", "n", "g">>,
     <<"p", "u", "r", "p", "o", "s", "e">>,
     <<"w", "o", "r", "k", "f", "l", "o", "w">>,
     <<"a", "p", "p", "l", "i", "c", "a", "t", "i", "o", "n">>,
     <<"m", "a", "n", "a", "g", "e", "m", "e", "n", "t">>,
     <<"l", "e", "a", "d", "s">>,
     <<"c", "r", "m">>}

\* `pat in s` on strings
Contains(s, pat) == \E i \in 0..(Len(s) - Len(pat)) : SubSeq(s, i + 1, i + Len(pat)) = pat

\* sum(1 for keyword in self.sql_keywords if keyword in query_lower)
SqlMatches(query) ==
    LET query_lower == StrLower(query)
    IN  Cardinality({keyword \in sql_keywords : Contains(query_lower, keyword)})

\* sum(1 for keyword in self.rag_keywords if keyword in query_lower)
RagMatches(query) ==
    LET query_lower == StrLower(query)
    IN  Cardinality({keyword \in rag_keywords : Contains(query_lower, keyword)})

\* _keyword_based_classification with the first threshold at one match
KeywordBasedClassificationOneMatch(query) ==
    LET sql_matches == SqlMatches(query)
        rag_matches == RagMatches(query)
    IN  IF sql_matches >= 1 /\ rag_matches = 0 THEN "structured_sql"
        ELSE IF rag_matches >= 2 /\ sql_matches = 0 THEN "semantic_rag"
        ELSE IF sql_matches >= 1 /\ rag_matches >= 1 THEN "hybrid"
        ELSE "None"

\* QueryClassifier._keyword_based_classification: the value of the QueryType,
\* or "None"
KeywordBasedClassification(query) ==
    LET sql_matches == SqlMatches(query)
        rag_matches == RagMatches(query)
    IN  IF sql_matches >= 2 /\ rag_matches = 0 THEN "structured_sql"
        ELSE IF rag_matches >= 2 /\ sql_matches = 0 THEN "semantic_rag"
        ELSE IF sql_matches >= 1 /\ rag_matches >= 1 THEN "hybrid"
        ELSE "None"

Whitespace == {" ", "\n"}

\* s.rstrip(chars)
RECURSIVE RStrip(_, _)
RStrip(s, chars) ==
    IF s # <<>> /\ s[Len(s)] \in chars THEN RStrip(SubSeq(s, 1, Len(s) - 1), chars) ELSE s

\* s.strip()
Strip(s) == RStrip(LStrip(s, Whitespace), Whitespace)

\* str.upper() on one character
UpperChar(c) ==
    IF c \in LowerLetters
    THEN UpperAlphabet[CHOOSE i \in 1..Len(LowerAlphabet) : LowerAlphabet[i] = c]
    ELSE c

StrUpper(s) == [i \in 1..Len(s) |-> UpperChar(s[i])]

LabelStructured == <<"S", "T", "R", "U", "C", "T", "U", "R", "E", "D", "_", "S", "Q", "L">>

LabelSemantic == <<"S", "E", "M", "A", "N", "T", "I", "C", "_", "R", "A", "G">>

LabelHybrid == <<"H", "Y", "B", "R", "I", "D">>

\* the parse of response.content in _llm_based_classification
ParseClassification(content) ==
    LET classification == StrUpper(Strip(content))
    IN  IF Contains(classification, LabelStructured) THEN "structured_sql"
        ELSE IF Contains(classification, LabelSemantic) THEN "semantic_rag"
        ELSE IF Contains(classification, LabelHybrid) THEN "hybrid"
        ELSE "semantic_rag"

\* _llm_based_classification without its except clause
LlmBasedClassificationNoExcept(query, available_tables, llm) ==
    IF llm.raises THEN [raised |-> TRUE, value |-> "None"]
    ELSE [raised |-> FALSE, value |-> ParseClassification(llm.content)]

\* QueryClassifier._llm_based_classification, where self.llm.invoke(prompt)
\* raises or returns a response with the content llm.content; the prompt is
\* built from the query and the table names outside the try
LlmBasedClassification(query, available_tables, llm) ==
    IF llm.raises THEN [raised |-> FALSE, value |-> "semantic_rag"]
    ELSE [raised |-> FALSE, value |-> ParseClassification(llm.content)]

\* the dictionary classify_query returns
Classification(query_type, method, confidence, available_tables) ==
    [query_type |-> query_type, classification_method |-> method, confidence |-> confidence,
     requires_sql |-> query_type \in {"structured_sql", "hybrid"},
     requires_rag |-> query_type \in {"semantic_rag", "hybrid"},
     available_tables |-> available_tables]

\* QueryClassifier.classify_query(query, available_tables): what it returns,
\* or that it raised
ClassifyQuery(query, available_tables, llm) ==
    LET tables == IF available_tables.given THEN available_tables.list ELSE <<>>
        keyword_result == KeywordBasedClassification(query)
        llm_result == LlmBasedClassification(query, tables, llm)
    IN  IF keyword_result # "None"
        THEN [raised |-> FALSE,
              value |-> Classification(keyword_result, "keyword", "high", tables)]
        ELSE IF llm_result.raised THEN [raised |-> TRUE]
        ELSE [raised |-> FALSE,
              value |-> Classification(llm_result.value, "llm", "medium", tables)]

\* the longest query, in phrases
MaxPhrases == 2

ClassifierPhrases ==
    {<<"f", "e", "e", "s">>,
     <<"p", "r", "o", "v", "i", "d", "e", "r", "s">>,
     <<"H", "o", "w", " ", "m", "a", "n", "y">>,
     <<"e", "x", "p", "l", "a", "i", "n">>,
     <<"C", "R", "M">>,
     <<"l", "e", "a", "d">>,
     <<"W", "h", "y">>}

\* the phrases joined by spaces, up to n of them
RECURSIVE PhraseQueries(_)
PhraseQueries(n) ==
    IF n = 0 THEN {<<>>}
    ELSE PhraseQueries(n - 1) \cup
         {IF q = <<>> THEN p ELSE q \o <<" ">> \o p : q \in PhraseQueries(n - 1), p \in ClassifierPhrases}

QueryHowManyProviders ==
    <<"H", "o", "w", " ", "m", "a", "n", "y", " ", "p", "r", "o", "v", "i", "d", "e", "r", "s", " ", "a", "r", "e", " ", "i", "n", " ", "N", "S", "W", "?">>

QueryListAndExplain ==
    <<"L", "i", "s", "t", " ", "a", "l", "l", " ", "p", "r", "o", "v", "i", "d", "e", "r", "s", " ", "a", "n", "d", " ", "e", "x", "p", "l", "a", "i", "n", " ", "t", "h", "e", " ", "a", "p", "p", "l", "i", "c", "a", "t", "i", "o", "n", " ", "p", "r", "o", "c", "e", "s", "s">>

QueryAddLead ==
    <<"H", "o", "w", " ", "d", "o", " ", "I", " ", "a", "d", "d", " ", "a", " ", "l", "e", "a", "d", " ", "i", "n", " ", "t", "h", "e", " ", "C", "R", "M", "?">>

ClassifierQueries ==
    PhraseQueries(MaxPhrases) \cup {QueryHowManyProviders, QueryListAndExplain, QueryAddLead}

\* available_tables: None, or a list of table names
ClassifierTables ==
    {[given |-> FALSE, list |-> <<>>], [given |-> TRUE, list |-> <<>>],
     [given |-> TRUE, list |-> <<TableA>>], [given |-> TRUE, list |-> <<TableA, TableB>>]}

\* what self.llm.invoke does: it raises, or it returns one of these contents
LlmContents ==
    {<<"S", "T", "R", "U", "C", "T", "U", "R", "E", "D", "_", "S", "Q", "L">>,
     <<"S", "E", "M", "A", "N", "T", "I", "C", "_", "R", "A", "G">>,
     <<" ", "h", "y", "b", "r", "i", "d", "\n">>,
     <<"H", "Y", "B", "R", "I", "D", " ", "o", "r", " ", "S", "T", "R", "U", "C", "T", "U", "R", "E", "D", "_", "S", "Q", "L">>,
     <<"u", "n", "s", "u", "r", "e">>,
     <<>>}

LlmOutcomes ==
    {[raises |-> TRUE, content |-> <<>>]} \cup {[raises |-> FALSE, content |-> c] : c \in LlmContents}

\* one classify_query call on a fresh classifier; the LLM is only drawn when
\* the keyword tier leaves the query undecided
QueryClassifier_classify_query ==
    \E query \in ClassifierQueries, available_tables \in ClassifierTables, llm \in LlmOutcomes :
        LET out == ClassifyQuery(query, available_tables, llm)
            invoked == KeywordBasedClassification(query) = "None"
        IN  /\ ret.op = "init"
            /\ ~invoked => llm = [raises |-> FALSE, content |-> <<>>]
            /\ ret' = [op |-> "classify_query", ok |-> ~out.raised, results |-> <<>>,
                       query |-> query, available_tables |-> available_tables,
                       invoked |-> invoked, llm |-> llm, out |-> out]
            /\ UNCHANGED <<storeVars, bm25Vars, otherVars>>

NextClassify == QueryClassifier_classify_query

SpecClassify == Init /\ [][NextClassify]_vars

\* --------------------------------------------------- _sanitize_table_name

\* the longest file name before its extension, in characters
MaxNameLen == 3

SanitizeChars == {"2", "a", "B", " ", "_", ".", CapitalIDot}

RECURSIVE NameStems(_)
NameStems(n) ==
    IF n = 0 THEN {<<>>}
    ELSE NameStems(n - 1) \cup {Append(s, c) : s \in NameStems(n - 1), c \in SanitizeChars}

FileProviderList ==
    <<"2", "0", "2", "4", " ", "P", "r", "o", "v", "i", "d", "e", "r", " ", "L", "i", "s", "t", ".", "c", "s", "v">>

SanitizeFilenames ==
    {s \o ext : s \in NameStems(MaxNameLen), ext \in {<<>>, DotCsv, DotCsvUpper}} \cup {FileProviderList}

\* two _sanitize_table_name(filename) calls, one after the other
SQLEngine_sanitize_table_name ==
    \E filename \in SanitizeFilenames :
        /\ ret.op = "init"
        /\ ret' = [op |-> "_sanitize_table_name", ok |-> TRUE, results |-> <<>>,
                   filename |-> filename, name |-> SanitizeTableName(filename),
                   again |-> SanitizeTableName(filename)]
        /\ UNCHANGED <<storeVars, bm25Vars, otherVars>>

NextSanitize == SQLEngine_sanitize_table_name

SpecSanitize == Init /\ [][NextSanitize]_vars

\* --------------------------------------------------------------- QueryEnhancer
\* A query, a context and the content of an LLM response are sequences of
\* characters.

\* QueryEnhancer.acronym_dict
acronym_dict ==
    (<<"C", "R", "M">> :> <<"C", "u", "s", "t", "o", "m", "e", "r", " ", "R", "e", "l", "a", "t", "i", "o", "n", "s", "h", "i", "p", " ", "M", "a", "n", "a", "g", "e", "m", "e", "n", "t">>) @@
    (<<"A", "I">> :> <<"A", "r", "t", "i", "f", "i", "c", "i", "a", "l", " ", "I", "n", "t", "e", "l", "l", "i", "g", "e", "n", "c", "e">>) @@
    (<<"M", "L">> :> <<"M", "a", "c", "h", "i", "n", "e", " ", "L", "e", "a", "r", "n", "i", "n", "g">>) @@
    (<<"N", "L", "P">> :> <<"N", "a", "t", "u", "r", "a", "l", " ", "L", "a", "n", "g", "u", "a", "g", "e", " ", "P", "r", "o", "c", "e", "s", "s", "i", "n", "g">>) @@
    (<<"R", "A", "G">> :> <<"R", "e", "t", "r", "i", "e", "v", "a", "l", " ", "A", "u", "g", "m", "e", "n", "t", "e", "d", " ", "G", "e", "n", "e", "r", "a", "t", "i", "o", "n">>) @@
    (<<"L", "L", "M">> :> <<"L", "a", "r", "g", "e", " ", "L", "a", "n", "g", "u", "a", "g", "e", " ", "M", "o", "d", "e", "l">>) @@
    (<<"A", "P", "I">> :> <<"A", "p", "p", "l", "i", "c", "a", "t", "i", "o", "n", " ", "P", "r", "o", "g", "r", "a", "m", "m", "i", "n", "g", " ", "I", "n", "t", "e", "r", "f", "a", "c", "e">>) @@
    (<<"U", "I">> :> <<"U", "s", "e", "r", " ", "I", "n", "t", "e", "r", "f", "a", "c", "e">>) @@
    (<<"U", "X">> :> <<"U", "s", "e", "r", " ", "E", "x", "p", "e", "r", "i", "e", "n", "c", "e">>) @@
    (<<"P", "D", "F">> :> <<"P", "o", "r", "t", "a", "b", "l", "e", " ", "D", "o", "c", "u", "m", "e", "n", "t", " ", "F", "o", "r", "m", "a", "t">>) @@
    (<<"C", "S", "V">> :> <<"C", "o", "m", "m", "a", "-", "S", "e", "p", "a", "r", "a", "t", "e", "d", " ", "V", "a", "l", "u", "e", "s">>) @@
    (<<"S", "Q", "L">> :> <<"S", "t", "r", "u", "c", "t", "u", "r", "e", "d", " ", "Q", "u", "e", "r", "y", " ", "L", "a", "n", "g", "u", "a", "g", "e">>) @@
    (<<"R", "P", "L">> :> <<"R", "e", "c", "o", "g", "n", "i", "t", "i", "o", "n", " ", "o", "f", " ", "P", "r", "i", "o", "r", " ", "L", "e", "a", "r", "n", "i", "n", "g">>) @@
    (<<"N", "S", "W">> :> <<"N", "e", "w", " ", "S", "o", "u", "t", "h", " ", "W", "a", "l", "e", "s">>)

\* QueryEnhancer.stop_words
stop_words ==
    {<<"t", "h", "e">>, <<"i", "s">>, <<"a", "t">>, <<"w", "h", "i", "c", "h">>, <<"o", "n">>,
     <<"a", "n", "d">>, <<"a">>, <<"a", "n">>, <<"a", "s">>, <<"a", "r", "e">>,
     <<"w", "a", "s">>, <<"w", "e", "r", "e">>, <<"b", "e">>, <<"b", "e", "e", "n">>,
     <<"b", "e", "i", "n", "g">>, <<"h", "a", "v", "e">>, <<"h", "a", "s">>, <<"h", "a", "d">>,
     <<"d", "o">>, <<"d", "o", "e", "s">>, <<"d", "i", "d">>, <<"w", "i", "l", "l">>,
     <<"w", "o", "u", "l", "d">>, <<"c", "o", "u", "l", "d">>,
     <<"s", "h", "o", "u", "l", "d">>, <<"m", "a", "y">>, <<"m", "i", "g", "h", "t">>,
     <<"m", "u", "s", "t">>, <<"c", "a", "n">>, <<"s", "h", "a", "l", "l">>, <<"t", "o">>,
     <<"o", "f">>, <<"i", "n">>, <<"f", "o", "r">>, <<"w", "i", "t", "h">>, <<"b", "y">>,
     <<"f", "r", "o", "m">>, <<"a", "b", "o", "u", "t">>, <<"i", "n", "t", "o">>,
     <<"t", "h", "r", "o", "u", "g", "h">>, <<"d", "u", "r", "i", "n", "g">>,
     <<"b", "e", "f", "o", "r", "e">>, <<"a", "f", "t", "e", "r">>,
     <<"a", "b", "o", "v", "e">>, <<"b", "e", "l", "o", "w">>, <<"u", "p">>,
     <<"d", "o", "w", "n">>, <<"o", "u", "t">>, <<"o", "f", "f">>, <<"o", "v", "e", "r">>,
     <<"u", "n", "d", "e", "r">>, <<"a", "g", "a", "i", "n">>,
     <<"f", "u", "r", "t", "h", "e", "r">>}

\* the first position of s that holds a character of chars, or Len(s) + 1
FirstOf(s, chars) ==
    IF \E i \in 1..Len(s) : s[i] \in chars
    THEN CHOOSE i \in 1..Len(s) : s[i] \in chars /\ \A j \in 1..(i - 1) : s[j] \notin chars
    ELSE Len(s) + 1

\* s.split(): the runs of characters between whitespace
RECURSIVE SplitWhitespace(_)
SplitWhitespace(s) ==
    LET rest == LStrip(s, Whitespace)
        n == FirstOf(rest, Whitespace)
    IN  IF rest = <<>> THEN <<>>
        ELSE <<SubSeq(rest, 1, n - 1)>> \o SplitWhitespace(SubSeq(rest, n, Len(rest)))

\* s.strip(chars)
StripChars(s, chars) == RStrip(LStrip(s, chars), chars)

Punctuation == {".", ",", "!", "?", ";", ":"}

\* QueryEnhancer.expand_acronyms
ExpandAcronyms(query) ==
    LET words == SplitWhitespace(query)
        expand(word) ==
            LET clean_word == StripChars(word, Punctuation)
            IN  IF StrUpper(clean_word) \in DOMAIN acronym_dict
                THEN clean_word \o <<" ", "(">> \o acronym_dict[StrUpper(clean_word)] \o <<")">>
                ELSE word
    IN  Join([i \in 1..Len(words) |-> expand(words[i])], " ")

\* QueryEnhancer.remove_stop_words
RemoveStopWords(query) ==
    LET words == SplitWhitespace(StrLower(query))
        filtered == SelectSeq(words, LAMBDA w : w \notin stop_words)
    IN  IF filtered # <<>> THEN Join(filtered, " ") ELSE query

\* words.sort(key=len, reverse=True): a stable sort, longest first
RECURSIVE SortByLength(_)
SortByLength(words) ==
    IF words = <<>> THEN <<>>
    ELSE LET i == CHOOSE i \in 1..Len(words) :
                    /\ \A j \in 1..Len(words) : Len(words[j]) <= Len(words[i])
                    /\ \A j \in 1..(i - 1) : Len(words[j]) < Len(words[i])
         IN  <<words[i]>> \o SortByLength(SubSeq(words, 1, i - 1) \o SubSeq(words, i + 1, Len(words)))

\* the loop of extract_keywords over the sorted words: a word is kept when
\* its lower-cased form is new and it is longer than 2, and the loop breaks
\* once the list has reached max_keywords
RECURSIVE KeepKeywords(_, _, _, _)
KeepKeywords(words, seen, keywords, max_keywords) ==
    IF words = <<>> THEN keywords
    ELSE IF StrLower(Head(words)) \notin seen /\ Len(Head(words)) > 2
    THEN IF Len(keywords) + 1 >= max_keywords THEN Append(keywords, Head(words))
         ELSE KeepKeywords(Tail(words), seen \cup {StrLower(Head(words))},
                           Append(keywords, Head(words)), max_keywords)
    ELSE KeepKeywords(Tail(words), seen, keywords, max_keywords)

\* QueryEnhancer.extract_keywords
ExtractKeywords(query, max_keywords) ==
    LET cleaned == RemoveStopWords(query)
        split == SplitWhitespace(cleaned)
        words == [i \in 1..Len(split) |-> StripChars(split[i], Punctuation)]
    IN  KeepKeywords(SortByLength(words), {}, <<>>, max_keywords)

\* the default of max_keywords
DefaultMaxKeywords == 5

\* the characters `lstrip('123456789.-) ')` removes
NumberingChars == {"1", "2", "3", "4", "5", "6", "7", "8", "9", ".", "-", ")", " "}

\* the cleaned lines of the LLM's answer, cut to num_variations
CleanVariations(content, num_variations) ==
    LET lines == Split(Strip(content), "\n")
        kept == SelectSeq(lines, LAMBDA v : Strip(v) # <<>>)
        cleaned == [i \in 1..Len(kept) |-> LStrip(Strip(kept[i]), NumberingChars)]
    IN  SubSeq(cleaned, 1, Min(num_variations, Len(cleaned)))

\* generate_query_variations that keeps a variation equal to the query
GenerateQueryVariationsKeepEqual(query, num_variations, llm) ==
    IF llm.raises THEN [raised |-> FALSE, value |-> <<query>>]
    ELSE [raised |-> FALSE,
          value |-> <<query>> \o SelectSeq(CleanVariations(llm.content, num_variations),
                                           LAMBDA v : v # <<>>)]

\* QueryEnhancer.generate_query_variations, where self.llm.invoke raises or
\* returns a response with the content llm.content
GenerateQueryVariations(query, num_variations, llm) ==
    IF llm.raises THEN [raised |-> FALSE, value |-> <<query>>]
    ELSE [raised |-> FALSE,
          value |-> <<query>> \o SelectSeq(CleanVariations(llm.content, num_variations),
                                           LAMBDA v : v # <<>> /\ v # query)]

\* QueryEnhancer._generate_context_aware_query
GenerateContextAwareQuery(query, context, llm) ==
    LET context_aware == LStrip(Strip(llm.content), {"1", "2", "3", ".", "-", ")", " "})
    IN  IF llm.raises THEN [raised |-> FALSE, value |-> query]
        ELSE [raised |-> FALSE, value |-> IF context_aware # <<>> THEN context_aware ELSE query]

\* QueryEnhancer.enhance_query(query, context): the dictionary it returns, or
\* that it raised; llm_variations and llm_context are what the two LLM calls do
EnhanceQuery(query, context, llm_variations, llm_context) ==
    LET generated == GenerateQueryVariations(query, 3, llm_variations)
        aware == IF context # <<>> THEN GenerateContextAwareQuery(query, context, llm_context)
                 ELSE [raised |-> FALSE, value |-> query]
        variations == IF context # <<>> /\ aware.value \notin Range(generated.value)
                      THEN Append(generated.value, aware.value)
                      ELSE generated.value
    IN  IF generated.raised \/ aware.raised THEN [raised |-> TRUE]
        ELSE [raised |-> FALSE,
              value |-> [original |-> query, expanded |-> ExpandAcronyms(query),
                         keywords |-> ExtractKeywords(query, DefaultMaxKeywords),
                         variations |-> variations, context_aware |-> aware.value,
                         total_queries |-> Len(variations)]]

\* the longest LLM answer, in lines
MaxLines == 3

EnhancerQueries == {<<"f", "e", "e">>, <<"C", "R", "M", " ", "f", "e", "e", "s", "?">>}

\* the lines an LLM answer is made of
AnswerLines ==
    {<<"f", "e", "e">>,
     <<"1", ".", " ", "f", "e", "e">>,
     <<"-", " ", "c", "o", "s", "t", " ">>,
     <<>>}

RECURSIVE AnswersOf(_)
AnswersOf(n) ==
    IF n = 0 THEN {<<>>}
    ELSE AnswersOf(n - 1) \cup
         {IF a = <<>> THEN line ELSE a \o <<"\n">> \o line : a \in AnswersOf(n - 1), line \in AnswerLines}

NotCalled == [raises |-> FALSE, content |-> <<>>]

\* what the LLM does on the prompt of generate_query_variations
VariationOutcomes ==
    {[raises |-> TRUE, content |-> <<>>]} \cup
    {[raises |-> FALSE, content |-> a] : a \in AnswersOf(MaxLines)}

\* what the LLM does on the prompt of _generate_context_aware_query
ContextOutcomes ==
    {[raises |-> TRUE, content |-> <<>>]} \cup
    {[raises |-> FALSE, content |-> a] :
        a \in {<<>>, <<"2", ")", " ", "f", "e", "e">>, <<"f", "e", "e", " ", "c", "o", "s", "t">>}}

\* the conversation context: none, or the text of one earlier message
EnhancerContexts == {<<>>, <<"U", "s", "e", "r", ":", " ", "h", "i">>}

\* one enhance_query call; the second LLM call is drawn only when a context
\* is given
QueryEnhancer_enhance_query ==
    \E query \in EnhancerQueries, context \in EnhancerContexts,
       llm_variations \in VariationOutcomes, llm_context \in ContextOutcomes :
        /\ ret.op = "init"
        /\ context = <<>> => llm_context = NotCalled
        /\ ret' = [op |-> "enhance_query", ok |-> TRUE, results |-> <<>>,
                   query |-> query, context |-> context,
                   llm_variations |-> llm_variations, llm_context |-> llm_context,
                   out |-> EnhanceQuery(query, context, llm_variations, llm_context)]
        /\ UNCHANGED <<storeVars, bm25Vars, otherVars>>

\* the longest query of extract_keywords, in words
MaxWords == 2

\* the largest max_keywords besides the default
MaxKeywords == 2

KeywordWords ==
    {<<"T", "h", "e">>, <<"f", "e", "e", "s">>, <<"F", "e", "e", "s", ".">>, <<"v", "i", "s", "a">>, <<"t", "o">>, <<"a", "?">>}

RECURSIVE WordQueries(_)
WordQueries(n) ==
    IF n = 0 THEN {<<>>}
    ELSE WordQueries(n - 1) \cup
         {IF q = <<>> THEN w ELSE q \o <<" ">> \o w : q \in WordQueries(n - 1), w \in KeywordWords}

\* one extract_keywords(query, max_keywords) call
QueryEnhancer_extract_keywords ==
    \E query \in WordQueries(MaxWords), max_keywords \in (0..MaxKeywords) \cup {DefaultMaxKeywords} :
        /\ ret.op = "init"
        /\ ret' = [op |-> "extract_keywords", ok |-> TRUE, results |-> <<>>,
                   query |-> query, max_keywords |-> max_keywords,
                   keywords |-> ExtractKeywords(query, max_keywords)]
        /\ UNCHANGED <<storeVars, bm25Vars, otherVars>>

NextEnhance ==
    \/ QueryEnhancer_enhance_query
    \/ QueryEnhancer_extract_keywords

SpecEnhance == Init /\ [][NextEnhance]_vars

\* -------------------------------------------------- the searches at any k
\* scores are in tenths

\* k as a caller may pass it: negative, 0, positive
AnyK == -1..MaxK

\* the thresholds a caller passes: 0.0 and config.SIMILARITY_THRESHOLD
Thresholds == {0, SIMILARITY_THRESHOLD}

\* what child_store.similarity_search_with_score(query, k=n) returns: the n
\* nearest child chunks, or all of them when fewer are stored, as positions of
\* the collection in ranked order. Two queries are drawn: one nearest to the
\* oldest chunks and one nearest to the newest.
ChildRankings(n) ==
    LET m == Min(n, Len(child_store))
    IN  {[i \in 1..m |-> i], [i \in 1..m |-> Len(child_store) + 1 - i]}

\* the scores of m ranked results, best first
RECURSIVE RankedScores(_)
RankedScores(m) ==
    IF m = 0 THEN {<<>>}
    ELSE {s \in {<<first>> \o rest : first \in {3, 8}, rest \in RankedScores(m - 1)} :
             Len(s) < 2 \/ s[2] <= s[1]}

\* parent_store.get() with no ids: every stored parent text
ParentDocumentsAll(parent_id) == MapSeq(parent_store, LAMBDA p : p.content)

\* parent_store.get(ids=[parent_id])["documents"]
ParentDocuments(parent_id) ==
    MapSeq(SelectSeq(parent_store, LAMBDA p : p.id = parent_id), LAMBDA p : p.content)

\* HierarchicalVectorStore.similarity_search_with_score(query, k, threshold),
\* given the ranking and the scores of the child search
SimilaritySearchWithScore(ranking, scores, k, threshold) ==
    LET child_results ==
            [i \in 1..Len(ranking) |-> [doc |-> child_store[ranking[i]], score |-> scores[i]]]
        filtered_results == SelectSeq(child_results, LAMBDA r : r.score >= threshold)
        top == SubSeq(filtered_results, 1, Min(Max(1, k), Len(filtered_results)))
        enriched(r) ==
            LET parent_docs == ParentDocuments(r.doc.parent_id)
                metadata == [parent_id |-> r.doc.parent_id, chunk_index |-> r.doc.chunk_index]
            IN  [page_content |-> r.doc.content,
                 metadata |-> IF parent_docs # <<>>
                              THEN metadata @@ [parent_context |-> parent_docs[1]]
                              ELSE metadata,
                 score |-> r.score]
    IN  [i \in 1..Len(top) |-> enriched(top[i])]

\* one similarity_search_with_score call; the embedding of the query or the
\* child search may raise, and that exception leaves the call
VectorStore_similarity_search_with_score ==
    \E k \in AnyK, threshold \in Thresholds, searchFails \in BOOLEAN :
      /\ ret.op # "similarity_search_with_score"
      /\ \E ranking \in ChildRankings(Max(1, k) * 2) :
          \E scores \in RankedScores(Len(ranking)) :
            /\ searchFails => (ranking = CHOOSE r \in ChildRankings(Max(1, k) * 2) : TRUE)
            /\ searchFails => (scores = CHOOSE sc \in RankedScores(Len(ranking)) : TRUE)
            /\ ret' = [op |-> "similarity_search_with_score", ok |-> ~searchFails,
                       results |-> IF searchFails THEN <<>>
                                   ELSE SimilaritySearchWithScore(ranking, scores, k, threshold),
                       k |-> k, threshold |-> threshold,
                       ranked |-> IF searchFails THEN <<>>
                                  ELSE [i \in 1..Len(ranking) |->
                                           [content |-> child_store[ranking[i]].content,
                                            parent_id |-> child_store[ranking[i]].parent_id,
                                            chunk_index |-> child_store[ranking[i]].chunk_index,
                                            score |-> scores[i]]]]
            /\ UNCHANGED <<storeVars, bm25Vars, otherVars>>

NextSearch ==
    \/ DocumentUploadView_post
    \/ VectorStore_similarity_search_with_score

SpecSearch == Init /\ [][NextSearch]_vars

NextAnyK ==
    \/ MasterOrchestrator_add_documents
    \/ VectorStore_similarity_search_with_score
    \/ KeywordSearchK(AnyK)

SpecAnyK == Init /\ [][NextAnyK]_vars

\* ------------------------------------------------------------------ claims

StoredDocuments == Range(GetAllDocuments(FALSE))

\* C1: every chunk of the child index has a parent_id that is the id of a
\* chunk of the parent index, and every chunk of the parent index has a stored
\* child, in every state add_documents and delete_collection calls can reach,
\* calls that fail partway included.
C1_ReferentialIntegrity ==
    /\ \A c \in Range(child_store) : \E p \in Range(parent_store) : p.id = c.parent_id
    /\ \A p \in Range(parent_store) : \E c \in Range(child_store) : c.parent_id = p.id

IngestOps == {"DocumentUploadView.post", "initialization", "RAGAgent.add_documents",
              "MasterOrchestrator.add_documents"}

\* C2: when an operation that ingests documents has returned, the BM25 index
\* is rebuilt: its document set equals the chunk set of the child index.
C2_IngestRebuildsIndex ==
    (ret.op \in IngestOps /\ ret.ok) => Range(bm25_documents) = StoredDocuments

\* C3: every document keyword_search returns is a chunk stored in the child
\* index (so none after delete_collection, rebuilt or not).
C3_KeywordResultsStored ==
    ret.op = "keyword_search" =>
        \A r \in Range(ret.results) : r.doc \in StoredDocuments

\* the score get_scores gives `doc` for `query` in an index holding it
OwnScore(doc, query) == GetScores(BuildIndex(<<doc>>), Tokenize(query))[1]

\* C4: a keyword_search that runs beside a BM25 rebuild reads the scoring
\* index and the document list of one build: every (document, score) pair it
\* returns pairs a document with its own score.
C4_PairsFromOneBuild ==
    ks.pc = "done" =>
        \A r \in Range(ks.results) : r.score = OwnScore(r.doc, ks.query)

LoadOps == {"load_all_csv_files", "add_csv_file", "CSVUploadView.post",
            "initialization"}

\* C7: a load that is no reload leaves every table the engine already holds
\* as it is, rows and schema.
C7_ExistingTableKept ==
    [][sqlret'.op \in LoadOps =>
         \A t \in DOMAIN dataframes :
            /\ t \in DOMAIN dataframes' /\ dataframes'[t] = dataframes[t]
            /\ t \in DOMAIN table_schemas' /\ table_schemas'[t] = table_schemas[t]]_vars

\* C8: a successful execute_query(query, limit) of a query with no LIMIT
\* clause, ended by ';' or not, returns at most `limit` rows.
C8_RowsBounded ==
    (sqlret.op = "execute_query" /\ sqlret.value.success /\ ~sqlret.input.has_limit)
        => sqlret.value.row_count <= sqlret.limit

\* the SQL strings that cannot run on the tables `dfs`: malformed SQL, an
\* unknown table, an unknown column
Erroneous(query, dfs) ==
    \/ ~query.well_formed
    \/ query.table \notin DOMAIN dfs
    \/ query.column \notin {"*"} \cup Range(dfs[query.table].columns)

\* C9: execute_query on malformed SQL, an unknown table or an unknown column
\* returns success = False with an error message, raises nothing, and leaves
\* the table map and the schemas as they were.
C9_ErrorsReturned ==
    [][(sqlret'.op = "execute_query" /\ Erroneous(sqlret'.input, dataframes)) =>
         /\ ~sqlret'.value.raised
         /\ ~sqlret'.value.success
         /\ sqlret'.value.error # ""
         /\ dataframes' = dataframes
         /\ table_schemas' = table_schemas]_vars

\* an execute_query on each kind of bad SQL has returned
C9_Witness ==
    /\ sqlret.op = "execute_query"
    /\ sqlret.value.error = "no such table"
    /\ sqlret.input.table \notin DOMAIN dataframes
    /\ ~sqlret.value.success

\* the tables the CSV directories hold: what every completed load or reload
\* has in the table map
DiskTables == DOMAIN ReloadCsvFiles(disk).dataframes

\* C5: a reader that ran beside the loaders did not fail, listed every table of
\* the CSV directories, and found each of them.
C5_ReaderSeesCompleteTables ==
    rd.pc = "done" =>
        /\ ~rd.raised
        /\ rd.op = "get_available_tables" => DiskTables \subseteq rd.tables
        /\ (rd.op = "get_table_schema" /\ rd.table_name \in DiskTables) => rd.found

\* C6: no two threads are inside the store-mutating steps of a loader at the
\* same time.
C6_WritersExclusive ==
    \A t1, t2 \in Writers : (wr[t1].wrote /\ wr[t2].wrote) => t1 = t2

\* C10: every process_query ends in a returned response that carries answer,
\* sources, session_id and confidence_score; none ends in an exception.
C10_AlwaysResponds ==
    response.op = "process_query" =>
        /\ ~response.raised
        /\ {"answer", "sources", "session_id", "confidence_score"}
              \subseteq DOMAIN response.value

GenericApologies ==
    {DegradedResponse.answer, RagError.answer, RagApology, EnhanceResponse(RagApology)}

\* C11: a process_query whose agent executor ran returns the generic apology
\* only when no knowledge-base document was retrieved or the plain LLM answer
\* was tried too, and every generic apology has confidence_score 0.
C11_DegradationTiers ==
    (response.op \in {"process_query", "RAGAgent.process_query"} /\ ~response.raised
       /\ response.value.answer \in GenericApologies)
      => /\ ("agent_executor" \in Range(response.calls) /\ response.retrieved > 0)
               => "llm" \in Range(response.calls)
         /\ response.value.confidence_score = 0

\* C12: the tool-call loop of a process_query never exceeds max_iterations
\* iterations, and a process_query that entered the loop returns a response
\* with an answer.
C12_LoopCapped ==
    /\ [](executor.iterations <= max_iterations)
    /\ (executor.pc = "loop") ~>
          (executor.pc = "idle" /\ response.op = "process_query" /\ ~response.raised
             /\ response.value.answer # "")

\* a process_query whose loop ran to the cap has returned the stop output
C12_Witness ==
    /\ response.op = "process_query"
    /\ ~response.raised
    /\ Len(response.value.tools_used) = max_iterations
    /\ response.value.answer = AgentStopped

\* the 0-indexed rank of object `id` in `results`, -1 when it is not there
RankOf(results, id) ==
    IF \E i \in 1..Len(results) : results[i].id = id
    THEN (CHOOSE i \in 1..Len(results) : results[i].id = id) - 1
    ELSE 0 - 1

\* the fused score of object `id` in the last call's result
FusedScore(id) ==
    ret.results[CHOOSE i \in 1..Len(ret.results) : ret.results[i].id = id].rrf_score

\* C15: in the result of reciprocal_rank_fusion with 0 < semantic_weight < 1,
\* a document of both lists scores strictly higher than every document that
\* is in one list only, at a rank no better than the first one's rank in that
\* list; the result is in descending order of score.
C15_BothListsWin ==
    ret.op = "reciprocal_rank_fusion" =>
        /\ \A i \in 1..(Len(ret.results) - 1) :
              ret.results[i].rrf_score >= ret.results[i + 1].rrf_score
        /\ \A b, o \in RrfObjects :
              LET sb == RankOf(ret.semantic_results, b)
                  kb == RankOf(ret.keyword_results, b)
                  so == RankOf(ret.semantic_results, o)
                  ko == RankOf(ret.keyword_results, o)
              IN  (/\ sb >= 0 /\ kb >= 0
                   /\ \/ (so >= sb /\ ko < 0)
                      \/ (ko >= kb /\ so < 0))
                  => FusedScore(b) > FusedScore(o)

\* reciprocal_rank_fusion([A, B, C], [B, D], semantic_weight = 0.6) has run
C15_Witness ==
    /\ ret.op = "reciprocal_rank_fusion"
    /\ ret.semantic_weight = 6
    /\ [i \in 1..Len(ret.semantic_results) |-> ret.semantic_results[i].id]
          = <<"A", "B", "C">>
    /\ [i \in 1..Len(ret.keyword_results) |-> ret.keyword_results[i].id] = <<"B", "D">>
    /\ ret.results[1].id = "B"
    /\ FusedScore("B") > FusedScore("A")

\* C13: a hybrid_search whose embedding call failed raised nothing and
\* returned the results of the keyword search.
C13_KeywordFallback ==
    (ret.op = "hybrid_search" /\ ret.embedding = "unreachable") =>
        /\ ret.ok
        /\ [i \in 1..Len(ret.results) |-> ret.results[i].doc]
              = [i \in 1..Len(ret.keyword_results) |-> ret.keyword_results[i].doc]

\* what the list `results` adds to the fused score of chunk `doc`
Contribution(results, doc, weight) ==
    IF \E i \in 1..Len(results) : results[i].doc = doc
    THEN RrfTerm(weight, (CHOOSE i \in 1..Len(results) : results[i].doc = doc) - 1)
    ELSE 0

\* C14: the result of a hybrid_search holds no stored chunk twice and no two
\* documents of the same content, and the rrf_score of a chunk is the sum of
\* what the semantic and the keyword list give it.
C14_FusedOnce ==
    (ret.op = "hybrid_search" /\ ret.ok) =>
        \A i, j \in 1..Len(ret.results) :
            /\ ret.results[i].doc.page_content = ret.results[j].doc.page_content
                  => i = j
            /\ ret.results[i].rrf_score
                  = Contribution(ret.semantic_results, ret.results[i].doc, SEMANTIC_WEIGHT)
                    + Contribution(ret.keyword_results, ret.results[i].doc,
                                   10 - SEMANTIC_WEIGHT)

\* the child chunks one complete add_documents(documents) writes when its
\* first fresh parent id is first + 1
ChildChunksOf(documents, first) ==
    MapSeq(SelectSeq(AddDocumentsWrites(documents, first), LAMBDA w : w.store = "child"), ChildRecord)

\* an earlier add_documents(documents) ran to its end and its child chunks,
\* which carry the doc_id of the documents' text, are in the child index
AlreadyIngested(documents) ==
    /\ ChildChunksOf(documents, 0) # <<>>
    /\ \E first \in 0..MaxUuid :
          /\ Range(ChildChunksOf(documents, first)) \subseteq Range(child_store)
          /\ \A c \in Range(ChildChunksOf(documents, first)) : c.parent_id \in DOMAIN parent_child_map

\* C16: an ingestion of documents whose text, and so whose doc_id, was
\* ingested before creates no new child chunk: the child index is unchanged.
C16_ReingestAddsNothing ==
    [][\A documents \in DocumentLists :
          (/\ ret'.op \in IngestOps
           /\ ret'.ok
           /\ AlreadyIngested(documents)
           /\ child_store' = child_store \o ChildChunksOf(documents, uuid))
              => child_store' = child_store]_vars

\* the decision the two match counts stand for
TierOf(structured, semantic) ==
    IF structured >= 2 /\ semantic = 0 THEN "structured_sql"
    ELSE IF semantic >= 2 /\ structured = 0 THEN "semantic_rag"
    ELSE IF structured >= 1 /\ semantic >= 1 THEN "hybrid"
    ELSE "None"

\* C17: the keyword tier of classify_query decides by the two match counts
\* alone (structured at >= 2 and 0, semantic at 0 and >= 2, hybrid at >= 1
\* each, undecided otherwise), classification_method is 'keyword' exactly
\* when it decided and 'llm' otherwise, and the two example queries come out
\* structured and hybrid.
C17_KeywordTier ==
    (ret.op = "classify_query" /\ ~ret.out.raised) =>
        LET tier == TierOf(SqlMatches(ret.query), RagMatches(ret.query))
            value == ret.out.value
        IN  /\ (value.classification_method = "keyword") <=> (tier # "None")
            /\ (value.classification_method = "llm") <=> (tier = "None")
            /\ tier # "None" => value.query_type = tier
            /\ ret.query = QueryHowManyProviders => value.query_type = "structured_sql"
            /\ ret.query = QueryListAndExplain => value.query_type = "hybrid"

\* classify_query("List all providers and explain the application process")
\* has returned hybrid from the keyword tier
C17_Witness ==
    /\ ret.op = "classify_query"
    /\ ret.query = QueryListAndExplain
    /\ ~ret.invoked
    /\ ret.out.value.query_type = "hybrid"
    /\ ret.out.value.classification_method = "keyword"

\* C18: classify_query("How do I add a lead in the CRM?", tables) returns
\* the semantic query type for every list of tables.
C18_AddLeadSemantic ==
    (ret.op = "classify_query" /\ ret.query = QueryAddLead) =>
        /\ ~ret.out.raised
        /\ ret.out.value.query_type = "semantic_rag"

\* the response holds none of the three labels
Unparseable(content) ==
    \A label \in {LabelStructured, LabelSemantic, LabelHybrid} :
        ~Contains(StrUpper(Strip(content)), label)

\* C19: classify_query never raises and returns one of the three query
\* types; in the LLM tier a failed LLM call and a response with none of the
\* three labels give semantic.
C19_LlmTierDefaults ==
    ret.op = "classify_query" =>
        /\ ~ret.out.raised
        /\ ret.out.value.query_type \in {"structured_sql", "semantic_rag", "hybrid"}
        /\ (ret.invoked /\ (ret.llm.raises \/ Unparseable(ret.llm.content)))
              => ret.out.value.query_type = "semantic_rag"

\* classify_query has returned semantic after the LLM call failed
C19_Witness ==
    /\ ret.op = "classify_query"
    /\ ret.invoked
    /\ ret.llm.raises
    /\ ~ret.out.raised
    /\ ret.out.value.query_type = "semantic_rag"
    /\ ret.out.value.classification_method = "llm"

\* C20: _sanitize_table_name gives the same name each time, and the name is
\* non-empty, lowercase, made of letters, digits and underscores only, with
\* no repeated, leading or trailing underscore and no leading digit;
\* "2024 Provider List.csv" gives "provider_list".
C20_SanitizedName ==
    ret.op = "_sanitize_table_name" =>
        /\ ret.name = ret.again
        /\ ret.name # <<>>
        /\ \A i \in 1..Len(ret.name) : ret.name[i] \in LowerLetters \cup Digits \cup {"_"}
        /\ \A i \in 1..(Len(ret.name) - 1) : ~(ret.name[i] = "_" /\ ret.name[i + 1] = "_")
        /\ ret.name[1] \notin Digits \cup {"_"}
        /\ ret.name[Len(ret.name)] # "_"
        /\ ret.filename = FileProviderList
              => ret.name = <<"p", "r", "o", "v", "i", "d", "e", "r", "_", "l", "i", "s", "t">>

\* tools.SQL_TOOLS, by tool name
SQL_TOOLS == {"sql_query", "get_sql_schema", "get_available_tables", "table_preview"}

\* C21: in a run classified semantic no structured-query, schema-inspection
\* or table-preview tool is invoked, and in a run classified structured the
\* document-search tool is not invoked.
C21_RoutingRestrictsTools ==
    (response.op = "process_query" /\ ~response.raised) =>
        LET value == response.value
        IN  /\ value.classification = "rag"
                 => \A tool \in Range(value.tools_used) :
                        tool \notin {"sql_query", "get_sql_schema", "table_preview"}
            /\ value.classification = "sql"
                 => "rag_search" \notin Range(value.tools_used)

\* C22: hybrid_mode is true exactly when a tool of the SQL family and the
\* document-search tool were both invoked in the run.
C22_HybridModeIffBoth ==
    (response.op = "process_query" /\ ~response.raised) =>
        LET value == response.value
        IN  value.hybrid_mode <=>
                /\ \E tool \in Range(value.tools_used) : tool \in SQL_TOOLS
                /\ "rag_search" \in Range(value.tools_used)

\* C23: a successful run has one source per tool invocation, labelled sql or
\* rag, in invocation order.
C23_SourcePerInvocation ==
    (response.op = "process_query" /\ ~response.raised
       /\ response.value.answer # DegradedResponse.answer) =>
        LET value == response.value
        IN  /\ Len(value.sources) = Len(value.tools_used)
            /\ \A i \in 1..Len(value.sources) :
                  /\ value.sources[i].type \in {"sql", "rag"}
                  /\ value.sources[i].tool = value.tools_used[i]

\* C24: confidence_score lies in [0,1] (in tenths: 0..10) and is 0.5 when the
\* run has no retrieval score to take the maximum of.
C24_ConfidenceFromScores ==
    (response.op \in {"process_query", "RAGAgent.process_query"} /\ ~response.raised) =>
        /\ response.value.confidence_score \in 0..10
        /\ response.retrieved = 0 => response.value.confidence_score = 5

\* C29: every process_query call that returns has appended one user message
\* followed by one assistant message to the session, so the stored messages
\* alternate user, assistant.
C29_UserThenAssistant ==
    [][(response'.op = "process_query" /\ ~response'.raised) =>
          /\ Len(messages') = Len(messages) + 2
          /\ SubSeq(messages', 1, Len(messages)) = messages
          /\ messages'[Len(messages) + 1].role = "user"
          /\ messages'[Len(messages) + 2].role = "assistant"]_vars

\* C25: enhance_query never raises; variations is non-empty, starts with the
\* original query, holds the original query exactly once, and total_queries
\* is its length; when every LLM call fails, variations = [query] and
\* context_aware = query.
C25_EnhancerDegrades ==
    ret.op = "enhance_query" =>
        /\ ~ret.out.raised
        /\ LET value == ret.out.value
           IN  /\ value.variations # <<>>
               /\ value.variations[1] = ret.query
               /\ Cardinality({i \in 1..Len(value.variations) : value.variations[i] = ret.query}) = 1
               /\ value.total_queries = Len(value.variations)
               /\ (ret.llm_variations.raises /\ (ret.context = <<>> \/ ret.llm_context.raises))
                     => (value.variations = <<ret.query>> /\ value.context_aware = ret.query)

\* enhance_query has returned after the LLM answered with a numbered copy of
\* the original query and one other phrasing, and after the context call
\* failed
C25_Witness ==
    /\ ret.op = "enhance_query"
    /\ ret.query = <<"f", "e", "e">>
    /\ ret.context # <<>>
    /\ ret.llm_context.raises
    /\ ret.llm_variations.content
          = <<"1", ".", " ", "f", "e", "e", "\n", "-", " ", "c", "o", "s", "t", " ">>
    /\ ret.out.value.variations = << <<"f", "e", "e">>, <<"c", "o", "s", "t">> >>

\* C26: extract_keywords returns at most max_keywords tokens, each lowercase,
\* longer than 2 characters and not a stop word, pairwise distinct ignoring
\* case, in order of non-increasing length.
C26_KeywordsWellFormed ==
    ret.op = "extract_keywords" =>
        /\ Len(ret.keywords) <= ret.max_keywords
        /\ \A i \in 1..Len(ret.keywords) :
              /\ StrLower(ret.keywords[i]) = ret.keywords[i]
              /\ Len(ret.keywords[i]) > 2
              /\ ret.keywords[i] \notin stop_words
        /\ \A i, j \in 1..Len(ret.keywords) :
              StrLower(ret.keywords[i]) = StrLower(ret.keywords[j]) => i = j
        /\ \A i \in 1..(Len(ret.keywords) - 1) :
              Len(ret.keywords[i]) >= Len(ret.keywords[i + 1])

\* C27: for every integer k, a search returns at most max(1, k) results and
\* does not fail on account of k.
C27_ClampedK ==
    (ret.op \in {"keyword_search", "similarity_search_with_score"} /\ ret.ok) =>
        Len(ret.results) <= Max(1, ret.k)

\* the position in `ranked` of the i-th returned result
RankedAt(i) ==
    CHOOSE p \in 1..Len(ret.ranked) :
        /\ ret.ranked[p].content = ret.results[i].page_content
        /\ ret.ranked[p].parent_id = ret.results[i].metadata.parent_id
        /\ ret.ranked[p].chunk_index = ret.results[i].metadata.chunk_index

C30_TablesMatchSchemas ==
    (\A t \in Writers : wr[t].pc = "idle") =>
        /\ DOMAIN dataframes = DOMAIN table_schemas
        /\ \A table_name \in TableNames :
              table_name \in GetAvailableTables(dataframes)
                 <=> GetTableSchema(table_name, dataframes, table_schemas).kind = "schema"
        /\ \A table_name \in TableNames :
              table_name \notin GetAvailableTables(dataframes)
                 <=> GetTableSchema(table_name, dataframes, table_schemas).kind = "error"

====
